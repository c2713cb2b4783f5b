SPECIFICATION Spec
CONSTANTS
  Odbc_ini <- MCOdbc_ini
  Servers <- MCServers
  First <- MCFirst
  Again <- MCAgain
  NoUrl <- MCNoUrl
  Numbers <- MCNumbers
  Zeros <- MCZeros
  Odd <- MCOdd
  Fqdns <- MCFqdns
  Short <- MCShort
INVARIANTS SessionsClosed SessionIsAsked CharsetIsServers OutStringReconnects
