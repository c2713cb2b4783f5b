------------------------------- MODULE Connect -------------------------------
(***************************************************************************)
(* How a connection handle gets and loses its session: the connection      *)
(* string and the data source in conn->cfg, the fallbacks from a URL, the  *)
(* driver type of the process, taos_connect_with and every step after it,  *)
(* any of which may fail, and what SQLDriverConnect hands back to connect  *)
(* again.  One handle is followed over many connects; another handle of    *)
(* the process may choose the driver type first.                           *)
(*                                                                         *)
(* A connection string is the sequence of its `key=value` parts as the     *)
(* scanner delivers them; kind is the token the value makes, which is not  *)
(* what its writer meant: a database called 123 is digits.                 *)
(***************************************************************************)
EXTENDS Integers, Sequences, SequencesExt, FiniteSets, TLC

CONSTANTS
  Odbc_ini,     \* DSN -> the texts of its entries
  Servers,      \* host ("" is the default one) -> [charset, tz]
  First,        \* calls made on a fresh handle
  Again,        \* calls made later
  NoUrl,        \* conn->cfg.url is NULL
  Numbers,      \* the texts of digits only, DIGITS for the scanner
  Zeros,        \* ... that atoi reads as 0
  Odd,          \* texts with a space or another character that no VALUE has
  Fqdns,        \* texts that are a FQDN
  Short         \* texts of one character, which are no VALUEX

OneDigit == {"1", "2", "3", "4", "5", "6", "7", "8", "9"}

\* The token a text makes behind `=`.  An odd one is not read as one value.
Kind(text) ==
  IF text = "" THEN "none" ELSE IF text \in Numbers THEN "digits" ELSE IF text \in Odd THEN "other" ELSE "value"

\* A call names a data source that there is, of which none is called "none"; a part's
\* kind is that of its text.
ASSUME ConnectAssumption ==
  /\ "" \in DOMAIN Servers /\ \A h \in DOMAIN Servers : Servers[h].charset # ""
  /\ "none" \notin DOMAIN Odbc_ini
  /\ {"0", "1"} \subseteq Numbers /\ Zeros \subseteq Numbers /\ "0" \in Zeros /\ OneDigit \cap Zeros = {}
  /\ "" \notin Numbers \cup Odd \cup Fqdns
  /\ \A a \in First \cup Again :
       \/ a.fn = "SQLConnect" /\ a.dsn \in DOMAIN Odbc_ini
       \/ /\ a.fn = "SQLDriverConnect" /\ a.str \in Seq({a.str[k] : k \in DOMAIN a.str})
          /\ \A k \in DOMAIN a.str : /\ a.str[k].key = "DSN" => a.str[k].val \in DOMAIN Odbc_ini
                                     /\ a.str[k].kind \in {"digits", "value"} => a.str[k].kind = Kind(a.str[k].val)
                                     /\ a.str[k].kind = "fqdn" => a.str[k].val \in Fqdns

VARIABLES
  cfg,          \* conn->cfg ("" stands for NULL)
  taos,         \* conn->ds_conn.taos: the session, NoSession for NULL
  s_charset,    \* conn->s_charset, which survives SQLDisconnect
  charsets,     \* conn->tsdb_charset
  tz_seconds,   \* conn->tz_seconds
  dead,         \* conn->dead
  driver_type,  \* s_driver_state, as DriverInit leaves it
  sessions,     \* sessions opened for this handle and not closed
  alive,        \* the server still knows the session
  pc, ask, ret, \* where the call is, the call, what it returned
  out,          \* the OutConnectionString, <<>> if none was written
  fresh         \* no call was made yet
conn == <<cfg, taos, s_charset, charsets, tz_seconds, dead>>
vars == <<conn, driver_type, sessions, alive, pc, ask, ret, out, fresh>>

NoSession == [host |-> "none"]

(***************************************************************************)
(* conn->cfg and the texts it is set by.                                   *)
(***************************************************************************)
conn_cfg_release ==
  [driver |-> "", dsn |-> "", backend |-> "native", url |-> NoUrl, uid |-> "", pwd |-> "",
   ip |-> "", port |-> 0, db |-> "", col_bind |-> "", param_bind |-> "", product |-> "general",
   unsigned_promotion |-> FALSE, timestamp_as_is |-> FALSE, conn_mode |-> FALSE, compression |-> "unset"]

Products == {"general", "kingscada", "kepware", "ado"}
\* a name that is not known is the general product
conn_get_custprod_by_name(name) == IF name \in Products THEN name ELSE "general"

UINT16_MAX == 65535

\* the entries of a data source, one after the other until one is not valid; a flag is
\* read only if it is one character long, and by atoi: "10" and "x" set nothing
DsnFails(e) == e.server.port \notin 0..UINT16_MAX \/ e.compression \notin {"", "0", "1"}
DsnUrl(c, dsn, e) ==
  [c EXCEPT !.dsn = dsn, !.url = e.url, !.backend = IF e.url = NoUrl THEN "native" ELSE "websocket"]
DsnServer(c, e) == [c EXCEPT !.ip = e.server.host, !.port = e.server.port]
DsnFlags(c, e) ==
  LET flag(text) == text \in OneDigit
  IN  [c EXCEPT !.db = e.db, !.unsigned_promotion = flag(e.unsigned_promotion),
                !.timestamp_as_is = flag(e.timestamp_as_is), !.conn_mode = flag(e.conn_mode)]
DsnRest(c, e) ==
  [c EXCEPT !.compression = IF e.compression = "" THEN "unset" ELSE e.compression,
            !.product = conn_get_custprod_by_name(e.customproduct),
            !.col_bind = e.col_bind, !.param_bind = e.param_bind]
_conn_cfg_init_by_dsn(c, dsn) ==
  LET e   == Odbc_ini[dsn]
      url == DsnUrl(c, dsn, e)
      db  == DsnFlags(DsnServer(url, e), e)
  IN  IF e.server.port \notin 0..UINT16_MAX THEN url
      ELSE IF e.compression \notin {"", "0", "1"} THEN db
      ELSE DsnRest(db, e)

(***************************************************************************)
(* conn_parser.y: what may follow what, and what each part sets.           *)
(***************************************************************************)
Odbc_attr == {"UID", "DB", "PWD", "SERVER", "ID"}   \* ID: any other key, ignored
Url_attr  == {"URL"}
Attribute == {"UNSIGNED_PROMOTION", "TIMESTAMP_AS_IS", "CONN_MODE", "COMPRESSION", "CUSTOMPRODUCT",
              "CHARSET_FOR_COL_BIND", "CHARSET_FOR_PARAM_BIND"}

\* digits alone are never a VALUE: PWD=123 and DB=123 do not parse
Written(part) ==
  CASE part.key \in {"DSN", "UID", "DB", "PWD", "ID", "CHARSET_FOR_COL_BIND", "CHARSET_FOR_PARAM_BIND"} -> part.kind = "value"
    [] part.key = "DRIVER"                  -> part.kind \in {"value", "braced"}
    [] part.key = "SERVER"                  -> part.kind \in {"fqdn", "none"}
    [] part.key \in {"URL", "CUSTOMPRODUCT"} -> part.kind = "braced"
    [] part.key = "COMPRESSION"             -> part.kind = "digits" /\ part.val \in {"0", "1"}
    [] OTHER                                -> part.kind = "digits"

\* the first part behind DSN or DRIVER decides what the others may be
Follows(str, k) ==
  CASE k = 1 -> str[1].key \in {"DSN", "DRIVER"}
    [] k = 2 -> str[2].key \in Odbc_attr \cup Url_attr \cup Attribute
    [] OTHER -> str[k].key \in CASE str[2].key \in Odbc_attr -> Odbc_attr \cup Attribute
                                 [] str[2].key \in Url_attr  -> Odbc_attr \cup Url_attr \cup Attribute
                                 [] OTHER                    -> Attribute

Bad(str, k) == ~Follows(str, k) \/ ~Written(str[k]) \/ (str[k].key = "DSN" /\ DsnFails(Odbc_ini[str[k].val]))
conn_parser_fails(str) == \E k \in DOMAIN str : Bad(str, k)

\* Mutant: SERVER without a port keeps the port of the data source.
Set_FQDN_KeepsPort(c, part) == [c EXCEPT !.ip = part.val, !.port = IF part.port = 0 THEN @ ELSE part.port]

\* SET_FQDN, SET_FQDN_PORT, CLR_FQDN_PORT
Set_FQDN(c, part) == [c EXCEPT !.ip = part.val, !.port = part.port]

Set(c, part) ==
  LET on == part.val \notin Zeros
      v  == part.val
  IN  CASE part.key = "DSN"                    -> _conn_cfg_init_by_dsn(c, v)
        [] part.key = "DRIVER"                 -> [c EXCEPT !.driver = v]
        [] part.key = "UID"                    -> [c EXCEPT !.uid = v]
        [] part.key = "PWD"                    -> [c EXCEPT !.pwd = v]
        [] part.key = "DB"                     -> [c EXCEPT !.db = v]
        [] part.key = "URL"                    -> [c EXCEPT !.url = v]
        [] part.key = "SERVER"                 -> Set_FQDN(c, part)
        [] part.key = "CHARSET_FOR_COL_BIND"   -> [c EXCEPT !.col_bind = v]
        [] part.key = "CHARSET_FOR_PARAM_BIND" -> [c EXCEPT !.param_bind = v]
        [] part.key = "UNSIGNED_PROMOTION"     -> [c EXCEPT !.unsigned_promotion = on]
        [] part.key = "TIMESTAMP_AS_IS"        -> [c EXCEPT !.timestamp_as_is = on]
        [] part.key = "CONN_MODE"              -> [c EXCEPT !.conn_mode = on]
        [] part.key = "COMPRESSION"            -> [c EXCEPT !.compression = v]
        [] part.key = "ID"                     -> c
        [] OTHER                               -> [c EXCEPT !.product = conn_get_custprod_by_name(v)]

\* the parts before the first bad one have been set (a data source up to its own bad entry)
conn_parser_parse(str) ==
  LET done(k) == \A j \in 1..k : Follows(str, j) /\ Written(str[j]) /\ (j < k => ~Bad(str, j))
      c == FoldLeft(Set, conn_cfg_release,
                    SubSeq(str, 1, CHOOSE k \in 0..Len(str) : done(k) /\ \A j \in 0..Len(str) : done(j) => j <= k))
  IN  [field \in DOMAIN conn_cfg_release |-> c[field]]

(***************************************************************************)
(* URL fallbacks: what was set explicitly takes precedence.                *)
(***************************************************************************)
_conn_fill_cfg_from_url(c) ==
  LET u == c.url
      or(a, b) == IF a = "" THEN b ELSE a
  IN  IF u = NoUrl THEN c
      ELSE [c EXCEPT !.ip = or(@, u.host), !.port = IF @ = 0 THEN u.port ELSE @,
                     !.uid = or(@, u.user), !.pwd = or(@, u.pass), !.db = or(@, u.path)]

SystemDbs == {"information_schema", "performance_schema"}
taos_connect_with(c) ==
  [host |-> c.ip, port |-> c.port, user |-> c.uid, pass |-> c.pwd,
   db |-> IF c.db \in SystemDbs THEN "" ELSE c.db,
   compression |-> IF c.url = NoUrl THEN "unset" ELSE c.compression, bi |-> FALSE]

(***************************************************************************)
(* The string handed back (SQL_DRIVER_COMPLETE).                           *)
(***************************************************************************)
Part(key, kind, val, port) == [key |-> key, kind |-> kind, val |-> val, port |-> port]
Optional(written, part) == IF written THEN <<part>> ELSE <<>>
Flag(key, on) == Part(key, "digits", IF on THEN "1" ELSE "0", 0)

HostKind(c) == CASE c.ip \in Fqdns -> "fqdn" [] c.ip = "" /\ c.port = 0 -> "none" [] OTHER -> "other"

\* Mutant: the port is left out.
ServerPart_NoPort(c) == Part("SERVER", HostKind(c), c.ip, 0)

\* a data source's or a URL's host may not be a FQDN, and a port without a host
\* (SERVER=:6030 in the data source) is none
ServerPart(c) == Part("SERVER", HostKind(c), c.ip, c.port)

\* The texts are written as they are, whatever they will be for the scanner; the driver and
\* a URL, which has no braces if it parses, stand in braces.  The backend is set by a data
\* source only, together with a URL, and neither user nor password is told.  OA_NIY at
\* conn.c:783 cannot fail: what clears the host clears the port, and a URL's port has a host.
_conn_fill_out_connection_str(c) ==
     Optional(c.driver # "", Part("DRIVER", IF c.driver \in Short THEN "other" ELSE "braced", c.driver, 0))
  \o Optional(c.driver = "" /\ c.dsn # "", Part("DSN", "value", c.dsn, 0))
  \o Optional(c.backend = "websocket", Part("URL", "braced", c.url, 0))
  \o <<ServerPart(c), Part("DB", Kind(c.db), c.db, 0)>>
  \o Optional(c.col_bind # "", Part("CHARSET_FOR_COL_BIND", Kind(c.col_bind), c.col_bind, 0))
  \o Optional(c.param_bind # "", Part("CHARSET_FOR_PARAM_BIND", Kind(c.param_bind), c.param_bind, 0))
  \o <<Flag("UNSIGNED_PROMOTION", c.unsigned_promotion), Flag("TIMESTAMP_AS_IS", c.timestamp_as_is),
       Flag("CONN_MODE", c.conn_mode)>>
  \o Optional(c.product # "general", Part("CUSTOMPRODUCT", "value", c.product, 0))
  \o Optional(c.compression # "unset", Part("COMPRESSION", "digits", c.compression, 0))

\* what the application finds if its buffer is full or too small: the last characters are
\* dots, and the call succeeds
Cut == <<Part("...", "other", "", 0)>>

(***************************************************************************)
(* Calls.                                                                  *)
(***************************************************************************)
NoAsk == [fn |-> "none"]
Init ==
  /\ cfg = conn_cfg_release /\ taos = NoSession /\ s_charset = "" /\ charsets = "" /\ tz_seconds = 0 /\ dead = FALSE
  /\ driver_type = "none" /\ sessions = 0 /\ alive = FALSE
  /\ pc = "idle" /\ ask = NoAsk /\ ret = "none" /\ out = <<>> /\ fresh = TRUE

Goto(l)   == pc' = l /\ UNCHANGED <<ask, ret, out>>
Return(r) == pc' = "idle" /\ ret' = r /\ ask' = NoAsk /\ out' = <<>>
Server    == Servers[IF taos.host \in DOMAIN Servers THEN taos.host ELSE ""]

\* a call that fails before it is connected leaves what it has parsed
Fails == Return("error") /\ UNCHANGED <<conn, sessions, alive, driver_type, fresh>>

\* every handle's statements are gone by now (Handles); the server's settings stay
conn_disconnect ==
  /\ taos' = NoSession /\ cfg' = conn_cfg_release
  /\ sessions' = IF taos = NoSession THEN sessions ELSE sessions - 1
  /\ alive' = FALSE
  /\ UNCHANGED <<charsets, tz_seconds, dead, driver_type, fresh>>

\* the driver manager lets no connected handle connect
Call(a, parsed, fails) ==
  /\ pc = "idle" /\ taos = NoSession /\ cfg' = parsed /\ fresh' = FALSE
  /\ IF fails THEN Return("error") ELSE pc' = "driver" /\ ask' = a /\ out' = <<>> /\ UNCHANGED ret
  /\ UNCHANGED <<taos, s_charset, charsets, tz_seconds, dead, driver_type, sessions, alive>>

SQLDriverConnect(a) ==
  /\ a.fn = "SQLDriverConnect" /\ Call(a, conn_parser_parse(a.str), conn_parser_fails(a.str))

SQLConnect(a) ==
  /\ a.fn = "SQLConnect"
  /\ LET c == _conn_cfg_init_by_dsn(conn_cfg_release, a.dsn)
     IN  IF DsnFails(Odbc_ini[a.dsn]) THEN Call(a, c, TRUE)
         ELSE Call(a, [c EXCEPT !.uid = a.uid, !.pwd = a.pwd], FALSE)

\* the first one chooses for the process (DriverInit); loading it may fail
InitDriver ==
  /\ pc = "driver"
  /\ LET desired == IF cfg.url = NoUrl THEN "native" ELSE "websocket"
     IN  \/ /\ driver_type \in {"none", desired} /\ driver_type' = desired /\ Goto("url")
            /\ UNCHANGED <<conn, sessions, alive, fresh>>
         \/ driver_type # desired /\ Fails

FillFromUrl ==
  /\ pc = "url"
  /\ \/ /\ cfg.url # NoUrl => cfg.url.valid
        /\ cfg' = _conn_fill_cfg_from_url(cfg) /\ Goto("connect")
        /\ UNCHANGED <<taos, s_charset, charsets, tz_seconds, dead, driver_type, sessions, alive, fresh>>
     \/ cfg.url # NoUrl /\ ~cfg.url.valid /\ Fails

TaosConnect ==
  /\ pc = "connect"
  /\ \/ /\ taos' = taos_connect_with(cfg) /\ sessions' = sessions + 1 /\ alive' = TRUE /\ Goto("mode")
        /\ UNCHANGED <<cfg, s_charset, charsets, tz_seconds, dead, driver_type, fresh>>
     \/ Fails

Proceed(l) == Goto(l) /\ UNCHANGED <<cfg, dead, driver_type, sessions, alive, fresh>>
GiveUp     == Return("error") /\ conn_disconnect /\ UNCHANGED s_charset

SetConnMode ==
  /\ pc = "mode"
  /\ \/ taos' = [taos EXCEPT !.bi = cfg.conn_mode] /\ Proceed("select") /\ UNCHANGED <<s_charset, charsets, tz_seconds>>
     \/ cfg.conn_mode /\ GiveUp

\* Mutant: a database that cannot be selected is told, the session stays open.
SelectDb_Leaves ==
  /\ pc = "select"
  /\ \/ /\ taos' = IF cfg.db \in SystemDbs THEN [taos EXCEPT !.db = cfg.db] ELSE taos
        /\ Proceed("configs") /\ UNCHANGED <<s_charset, charsets, tz_seconds>>
     \/ /\ cfg.db \in SystemDbs /\ Return("error") /\ taos' = NoSession
        /\ UNCHANGED <<cfg, s_charset, charsets, tz_seconds, dead, driver_type, sessions, alive, fresh>>

\* a system database is selected after the connect
SelectDb ==
  /\ pc = "select"
  /\ \/ /\ taos' = IF cfg.db \in SystemDbs THEN [taos EXCEPT !.db = cfg.db] ELSE taos
        /\ Proceed("configs") /\ UNCHANGED <<s_charset, charsets, tz_seconds>>
     \/ cfg.db \in SystemDbs /\ GiveUp

\* Mutant: what is known of a server is not asked again.
_conn_save_Once == IF s_charset = "" THEN Server.charset ELSE s_charset

_conn_save == Server.charset

\* the rows of ins_configs, until one cannot be read
GetConfigs ==
  /\ pc = "configs"
  /\ \/ s_charset' = _conn_save /\ Proceed("iconvs") /\ UNCHANGED <<taos, charsets, tz_seconds>>
     \/ s_charset' \in {s_charset, _conn_save} /\ Return("error") /\ conn_disconnect

\* fails in a locale whose character set the driver does not know
SetupIconvs ==
  /\ pc = "iconvs"
  /\ \/ /\ charsets' = IF cfg.url = NoUrl THEN s_charset ELSE "UTF-8"
        /\ Proceed("timezone") /\ UNCHANGED <<taos, s_charset, tz_seconds>>
     \/ GiveUp

GetTimezone ==
  /\ pc = "timezone"
  /\ \/ /\ tz_seconds' = Server.tz
        /\ pc' = "idle" /\ ret' = "ok"
        /\ out' \in IF ask.fn = "SQLDriverConnect" THEN {_conn_fill_out_connection_str(cfg), Cut} ELSE {<<>>}
        /\ UNCHANGED <<ask, cfg, taos, s_charset, charsets, dead, driver_type, sessions, alive, fresh>>
     \/ GiveUp

SQLDisconnect == pc = "idle" /\ taos # NoSession /\ Return("none") /\ conn_disconnect /\ UNCHANGED s_charset

\* SQL_ATTR_CONNECTION_DEAD: once dead, dead for ever
_conn_check_alive ==
  /\ pc = "idle" /\ taos # NoSession
  /\ \/ dead /\ ret' = "dead" /\ UNCHANGED dead
     \/ ~dead /\ alive /\ ret' = "alive" /\ UNCHANGED dead
     \/ ~dead /\ ret' = "dead" /\ dead' = TRUE
  /\ UNCHANGED <<cfg, taos, s_charset, charsets, tz_seconds, driver_type, sessions, alive, pc, ask, out, fresh>>

\* the environment: the server loses the session, another handle chooses the driver
Lose == alive /\ alive' = FALSE /\ UNCHANGED <<conn, driver_type, sessions, pc, ask, ret, out, fresh>>
OtherHandle ==
  /\ driver_type = "none" /\ driver_type' \in {"native", "websocket"}
  /\ UNCHANGED <<conn, sessions, alive, pc, ask, ret, out, fresh>>

Driver ==
  \/ InitDriver \/ FillFromUrl \/ TaosConnect \/ SetConnMode \/ SelectDb
  \/ GetConfigs \/ SetupIconvs \/ GetTimezone
Next ==
  \/ \E a \in IF fresh THEN First ELSE Again : SQLDriverConnect(a) \/ SQLConnect(a)
  \/ Driver \/ SQLDisconnect \/ _conn_check_alive \/ Lose \/ OtherHandle
Spec == Init /\ [][Next]_vars

(***************************************************************************)
(* Properties.                                                             *)
(***************************************************************************)
Connected == pc = "idle" /\ taos # NoSession

\* Type correctness: a handle without a call in progress is connected or not, and what it
\* knows of a server was told by one.
TypeOK ==
  /\ DOMAIN cfg = DOMAIN conn_cfg_release
  /\ taos = NoSession \/ {"host", "db", "bi"} \subseteq DOMAIN taos
  /\ driver_type \in {"none", "native", "websocket"}
  /\ pc \in {"idle", "driver", "url", "connect", "mode", "select", "configs", "iconvs", "timezone"}
  /\ ret \in {"none", "ok", "error", "alive", "dead"}
  /\ s_charset \in {""} \cup {Servers[h].charset : h \in DOMAIN Servers}

\* Whatever step of a connect fails, it leaves no session behind: the server has one for a
\* connected handle and none for another.
SessionsClosed == pc = "idle" => sessions = IF taos = NoSession THEN 0 ELSE 1

\* What was said of a key: by the last part of the string that names it, else by the data source.
Said(a, key, in_dsn) ==
  LET ks == IF a.fn = "SQLConnect" THEN {} ELSE {k \in DOMAIN a.str : a.str[k].key = key}
  IN  IF ks = {} THEN in_dsn ELSE a.str[CHOOSE k \in ks : \A j \in ks : j <= k]
\* a data source's mode counts as one digit only (conn.c:914)
Counted(text) == IF text \in OneDigit THEN text ELSE "0"
DsnOf(a) ==
  IF a.fn = "SQLConnect" THEN a.dsn ELSE IF a.str # <<>> /\ a.str[1].key = "DSN" THEN a.str[1].val ELSE "none"
UrlOf(a) == Said(a, "URL", [val |-> IF DsnOf(a) = "none" THEN NoUrl ELSE Odbc_ini[DsnOf(a)].url]).val
Asked(a) ==
  LET e == IF DsnOf(a) = "none" THEN [server |-> [host |-> "", port |-> 0], db |-> "", conn_mode |-> "0", compression |-> ""]
           ELSE Odbc_ini[DsnOf(a)]
      uid == IF a.fn = "SQLConnect" THEN a.uid ELSE Said(a, "UID", [val |-> ""]).val
      pwd == IF a.fn = "SQLConnect" THEN a.pwd ELSE Said(a, "PWD", [val |-> ""]).val
      server == Said(a, "SERVER", [val |-> e.server.host, port |-> e.server.port])
      url == UrlOf(a)
      else(x, f) == IF x = "" /\ url # NoUrl THEN url[f] ELSE x
  IN  [host |-> else(server.val, "host"), user |-> else(uid, "user"), pass |-> else(pwd, "pass"),
       port |-> IF server.port = 0 /\ url # NoUrl THEN url.port ELSE server.port,
       db |-> else(Said(a, "DB", [val |-> e.db]).val, "path"),
       bi |-> Said(a, "CONN_MODE", [val |-> Counted(e.conn_mode)]).val \notin Zeros,
       compression |-> IF url = NoUrl THEN "unset"
                       ELSE LET c == Said(a, "COMPRESSION", [val |-> e.compression]).val IN IF c = "" THEN "unset" ELSE c]

\* The session a handle is given is the one asked for: the string over the data source
\* over the URL, for each of host, port, user, password, database, mode and compression,
\* by the driver that the URL, or the lack of one, needs.  A data source's mode counts only
\* if it is a single digit.
SessionIsAsked ==
  Connected => /\ taos = Asked(ask)
               /\ driver_type = IF UrlOf(ask) = NoUrl THEN "native" ELSE "websocket"

\* Texts and timestamps are converted for the server the handle is connected to now, not
\* for one it was connected to before.
CharsetIsServers ==
  Connected => tz_seconds = Server.tz /\ charsets = IF driver_type = "websocket" THEN "UTF-8" ELSE Server.charset

\* The string handed back, with the user and password added, connects the same way again,
\* if the buffer took it and what is written of c is what the scanner reads: a driver of
\* one character, a database or a character set of digits only or with a space, no database
\* and a host that is no FQDN are not read.  Neither is a product, and a URL is told only if
\* the data source has one (README).
Reparsable(c) ==
  /\ (c.driver # "" \/ c.dsn # "") /\ c.driver \notin Short
  /\ Kind(c.db) = "value" /\ {Kind(c.col_bind), Kind(c.param_bind)} \subseteq {"none", "value"}
  /\ HostKind(c) # "other"
  /\ c.product = "general" /\ (c.url # NoUrl => c.backend = "websocket")
  /\ c.dsn # "" => conn_get_custprod_by_name(Odbc_ini[c.dsn].customproduct) = "general"
OutStringReconnects ==
  (Connected /\ ask.fn = "SQLDriverConnect" /\ out # Cut /\ Reparsable(cfg)) =>
    /\ ~conn_parser_fails(out)
    /\ [_conn_fill_cfg_from_url(conn_parser_parse(out)) EXCEPT !.uid = cfg.uid, !.pwd = cfg.pwd] = cfg
=============================================================================
