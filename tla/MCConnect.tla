------------------------------ MODULE MCConnect ------------------------------
(* Three servers, data sources with and without a URL, with a bad entry or   *)
(* with texts the scanner reads otherwise than they were meant, and every    *)
(* connection string of a first part and up to three others.                 *)
EXTENDS Connect

MCNoUrl == [valid |-> TRUE, host |-> "no", port |-> 0, user |-> "", pass |-> "", path |-> ""]
Url(valid, host, port, user, pass, path) ==
  [valid |-> valid, host |-> host, port |-> port, user |-> user, pass |-> pass, path |-> path]
Ws   == Url(TRUE, "h1", 6041, "u", "p", "db1")
Wss  == Url(TRUE, "h2", 0, "", "", "42")
Junk == Url(FALSE, "", 0, "", "", "")

Entry == [url |-> MCNoUrl, server |-> [host |-> "", port |-> 0], db |-> "", unsigned_promotion |-> "", timestamp_as_is |-> "1",
          conn_mode |-> "", compression |-> "", customproduct |-> "", col_bind |-> "", param_bind |-> ""]
MCOdbc_ini ==
  [plain  |-> Entry,
   port   |-> [Entry EXCEPT !.server = [host |-> "", port |-> 6030], !.customproduct = "ado"],
   full   |-> [Entry EXCEPT !.server = [host |-> "h1", port |-> 6030], !.db = "db2", !.conn_mode = "1",
                            !.compression = "1", !.customproduct = "unheard", !.col_bind = "GBK"],
   ws     |-> [Entry EXCEPT !.url = Ws, !.server = [host |-> "", port |-> 6030], !.compression = "0", !.unsigned_promotion = "1"],
   digits |-> [Entry EXCEPT !.db = "123", !.conn_mode = "10", !.unsigned_promotion = "x", !.timestamp_as_is = "7"],
   texts  |-> [Entry EXCEPT !.server = [host |-> "my_host", port |-> 0], !.db = "a b", !.col_bind = "936"],
   badport |-> [Entry EXCEPT !.server = [host |-> "h1", port |-> 70000], !.db = "db2"],
   badzip |-> [Entry EXCEPT !.db = "db2", !.compression = "2"]]
MCServers == "" :> [charset |-> "UTF-8", tz |-> 0] @@ "h1" :> [charset |-> "UTF-8", tz |-> 28800]
             @@ "h2" :> [charset |-> "GB18030", tz |-> -19800]

MCNumbers == {"0", "00", "1", "7", "10", "42", "123", "936"}
MCZeros   == {"0", "00"}
MCOdd     == {"a b"}
MCFqdns   == {"h1", "h2"}
MCShort   == {"x"}

T(key, val) == Part(key, Kind(val), val, 0)
Heads == {T("DSN", d) : d \in DOMAIN MCOdbc_ini} \cup {Part("DRIVER", "braced", "TDengine", 0), T("DRIVER", "x")}
Parts == {T("UID", "root"), T("PWD", "123"), T("PWD", "secret"), T("DB", "db3"), T("DB", "information_schema"),
          Part("SERVER", "fqdn", "h2", 0), Part("SERVER", "fqdn", "h2", 70000), Part("SERVER", "none", "", 0), T("ID", "x"),
          Part("URL", "braced", Wss, 0), Part("URL", "braced", Junk, 0), T("CONN_MODE", "1"), T("COMPRESSION", "1"),
          T("COMPRESSION", "7"), T("TIMESTAMP_AS_IS", "00"), Part("CUSTOMPRODUCT", "braced", "general", 0)}
Strings(n) == {<<>>} \cup {<<h>> \o r : h \in Heads, r \in UNION {[1..k -> Parts] : k \in 0..n}}

Drv(str) == [fn |-> "SQLDriverConnect", str |-> str]
MCFirst == {Drv(s) : s \in Strings(3)}
           \cup {[fn |-> "SQLConnect", dsn |-> d, uid |-> u, pwd |-> ""] : d \in DOMAIN MCOdbc_ini, u \in {"", "root"}}
MCAgain == {Drv(s) : s \in {<<T("DSN", "full")>>, <<T("DSN", "ws"), Part("SERVER", "fqdn", "h2", 0)>>,
                            <<T("DSN", "plain"), Part("SERVER", "fqdn", "h2", 6030), T("DB", "information_schema")>>,
                            <<Part("DRIVER", "braced", "TDengine", 0), T("CONN_MODE", "0"), T("PWD", "123")>>}}
=============================================================================
