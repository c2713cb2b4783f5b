---------------------------- MODULE MCDriverInit ----------------------------
(* Three connecting threads, two calls each: an initializer that fails, a     *)
(* spinner it must wake and a third thread that slips in between.             *)
EXTENDS DriverInit

CONSTANTS t1, t2, t3

MCThreads == {t1, t2, t3}
MCTypes == {"native", "websocket"}
MCNone == "none"
=============================================================================
