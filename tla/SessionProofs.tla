---------------------------- MODULE SessionProofs ----------------------------
(***************************************************************************)
(* Proofs about DriverInit, for any set of threads, any set of types and   *)
(* any number of calls, and about Connect, for any data sources, servers   *)
(* and calls.                                                              *)
(*                                                                         *)
(* Of a connect: that no session is left behind and the server is known    *)
(* (IInv); that the session is the one asked for (AskedInv, on what a      *)
(* string of any length says, SaidBy); that the string handed back leads   *)
(* to the same session again (OutInv, on what is written, OutParts, and    *)
(* where each field comes from, Kept).                                     *)
(***************************************************************************)
EXTENDS DriverInit, Connect, FiniteSetTheorems, SequenceTheorems, NaturalsInduction, WellFoundedInduction, TLAPS

(***************************************************************************)
(* The choice of the driver.  The word alone does not tell what the        *)
(* library has loaded while a winner of the compare-and-swap is at work;   *)
(* the inductive invariant ChoiceInv adds, for each place of the winner,   *)
(* what the library has loaded, and ties the value a comparing thread has  *)
(* read to the word, which is final by then.                               *)
(***************************************************************************)
\* What the word means.
WordInv ==
  /\ s_driver_state = Uninit => lib = None
  /\ s_driver_state \in Types => lib = s_driver_state

\* What a winner has done so far.
WinnerInv ==
  \A t \in Threads :
    /\ Winner(t) => s_driver_state = Initializing
    /\ stage[t] \in {"options", "restore"} => lib = None
    /\ stage[t] = "publish" => lib = desired[t]

\* What the callers know.
CallerInv ==
  \A t \in Threads :
    /\ stage[t] # "idle" => desired[t] \in Types /\ result[t] = "none"
    /\ stage[t] = "compare" => prev[t] = s_driver_state /\ s_driver_state \in Types
    /\ result[t] = "ok" => s_driver_state = desired[t] /\ desired[t] \in Types
    /\ result[t] = "refused" => s_driver_state \in Types /\ s_driver_state # desired[t]

ChoiceInv == ChoiceTypeOK /\ OneInitializer /\ WordInv /\ WinnerInv /\ CallerInv

\* The word is UNINIT, nothing is loaded and nobody calls.
LEMMA InitChoice == ChoiceInit => ChoiceInv
  BY ConstAssumption
     DEF ChoiceInit, ChoiceInv, ChoiceTypeOK, OneInitializer, WordInv, WinnerInv, CallerInv, Winner,
         States, Uninit, Initializing

\* One step per action; only the winner of the compare-and-swap writes the word.
LEMMA StepChoice == ChoiceInv /\ [ChoiceNext]_choice_vars => ChoiceInv'
  <1> SUFFICES ASSUME ChoiceInv, [ChoiceNext]_choice_vars PROVE ChoiceInv'
    OBVIOUS
  <1> USE ConstAssumption
      DEF ChoiceInv, ChoiceTypeOK, OneInitializer, WordInv, WinnerInv, CallerInv, Winner,
          States, Uninit, Initializing, GoTo, ReturnWith
  <1>1. ASSUME NEW t \in Threads, NEW w \in Types, Enter(t, w) PROVE ChoiceInv'
    BY <1>1 DEF Enter
  <1>2. ASSUME NEW t \in Threads, Cas(t) PROVE ChoiceInv'
    <2>1. CASE s_driver_state = Uninit
      BY <1>2, <2>1 DEF Cas
    <2>2. CASE s_driver_state = Initializing
      BY <1>2, <2>2 DEF Cas
    <2>3. CASE s_driver_state \in Types
      BY <1>2, <2>3 DEF Cas
    <2> QED BY <2>1, <2>2, <2>3
  <1>3. ASSUME NEW t \in Threads, OptionsSucceed(t) PROVE ChoiceInv'
    BY <1>3 DEF OptionsSucceed
  <1>4. ASSUME NEW t \in Threads, OptionsFail(t) PROVE ChoiceInv'
    BY <1>4 DEF OptionsFail
  <1>5. ASSUME NEW t \in Threads, Publish(t) PROVE ChoiceInv'
    BY <1>5 DEF Publish
  <1>6. ASSUME NEW t \in Threads, Restore(t) PROVE ChoiceInv'
    BY <1>6 DEF Restore
  <1>7. ASSUME NEW t \in Threads, Spin(t) PROVE ChoiceInv'
    BY <1>7 DEF Spin
  <1>8. ASSUME NEW t \in Threads, Compare(t) PROVE ChoiceInv'
    BY <1>8 DEF Compare
  <1>9. CASE UNCHANGED choice_vars
    BY <1>9 DEF choice_vars
  <1> QED
    BY <1>1, <1>2, <1>3, <1>4, <1>5, <1>6, <1>7, <1>8, <1>9 DEF ChoiceNext, Running

\* The inductive invariant holds in every reachable state.
THEOREM ChoiceInvariance == ChoiceSpec => []ChoiceInv
  BY InitChoice, StepChoice, PTL DEF ChoiceSpec

\* Every variable of conn_init_driver_type keeps its type.
THEOREM ChoiceTypeCorrect == ChoiceSpec => []ChoiceTypeOK
  <1>1. ChoiceInv => ChoiceTypeOK
    BY DEF ChoiceInv
  <1> QED BY <1>1, ChoiceInvariance, PTL

\* taos_options is never entered by two threads at once.
THEOREM MutualExclusion == ChoiceSpec => []OneInitializer
  <1>1. ChoiceInv => OneInitializer
    BY DEF ChoiceInv
  <1> QED BY <1>1, ChoiceInvariance, PTL

\* A caller told 0 has the driver it asked for.
THEOREM SuccessSound == ChoiceSpec => []SuccessMeansLoaded
  <1>1. ChoiceInv => SuccessMeansLoaded
    BY DEF ChoiceInv, WordInv, CallerInv, SuccessMeansLoaded
  <1> QED BY <1>1, ChoiceInvariance, PTL

\* A caller is refused only because another driver is loaded.
THEOREM RefusalSound == ChoiceSpec => []RefusedMeansOther
  <1>1. ChoiceInv => RefusedMeansOther
    BY ConstAssumption DEF ChoiceInv, WordInv, CallerInv, RefusedMeansOther
  <1> QED BY <1>1, ChoiceInvariance, PTL

\* The library never switches drivers.
THEOREM NoSwitch == ChoiceSpec => LoadedForGood
  <1>1. ChoiceInv /\ [ChoiceNext]_choice_vars => [lib # None => lib' = lib]_choice_vars
    BY DEF ChoiceInv, WinnerInv, ChoiceNext, Running, Enter, Cas, OptionsSucceed, OptionsFail,
           Publish, Restore, Spin, Compare, choice_vars, GoTo, ReturnWith
  <1> QED BY <1>1, ChoiceInvariance, PTL DEF ChoiceSpec, LoadedForGood

\* A thread's call of the cell is the call under way in conn_init_driver_type,
\* the cell is empty until the word holds a type: the initial state and every
\* step of the protocol is one of the cell, or leaves it alone.
THEOREM Refinement == ChoiceSpec => ImplementsCell
  <1> DEFINE chosen == IF s_driver_state \in Types THEN s_driver_state ELSE None
             call == [t \in Threads |-> IF stage[t] = "idle" THEN None ELSE desired[t]]
  <1>1. ChoiceInit => Cell!Init
    BY ConstAssumption DEF ChoiceInit, Cell!Init, Uninit
  <1>2. ChoiceInv /\ [ChoiceNext]_choice_vars => [Cell!Next]_Cell!vars
    <2> SUFFICES ASSUME ChoiceInv, [ChoiceNext]_choice_vars PROVE [Cell!Next]_Cell!vars
      OBVIOUS
    <2> USE ConstAssumption
        DEF ChoiceInv, ChoiceTypeOK, WordInv, WinnerInv, CallerInv, Winner,
            States, Uninit, Initializing, GoTo, ReturnWith
    <2>1. ASSUME NEW t \in Threads, NEW w \in Types, Enter(t, w)
          PROVE Cell!Invoke(t, w)
      BY <2>1 DEF Enter, Cell!Invoke
    <2>2. ASSUME NEW t \in Threads,
                 Cas(t) \/ OptionsSucceed(t) \/ OptionsFail(t) \/ Spin(t)
          PROVE UNCHANGED <<chosen, call, result>>
      <3>1. chosen' = chosen
        BY <2>2 DEF Cas, OptionsSucceed, OptionsFail, Spin
      <3>2. call' = call
        BY <2>2 DEF Cas, OptionsSucceed, OptionsFail, Spin
      <3>3. result' = result
        BY <2>2 DEF Cas, OptionsSucceed, OptionsFail, Spin
      <3> QED BY <3>1, <3>2, <3>3
    <2>3. ASSUME NEW t \in Threads, Publish(t) PROVE Cell!Choose(t)
      BY <2>3 DEF Publish, Cell!Choose, Cell!Return
    <2>4. ASSUME NEW t \in Threads, Restore(t) PROVE Cell!Fail(t)
      BY <2>4 DEF Restore, Cell!Fail, Cell!Return
    <2>5. ASSUME NEW t \in Threads, Compare(t)
          PROVE Cell!Agree(t) \/ Cell!Refuse(t)
      BY <2>5 DEF Compare, Cell!Agree, Cell!Refuse, Cell!Return
    <2>6. CASE UNCHANGED choice_vars
      BY <2>6 DEF choice_vars, Cell!vars
    <2> QED
      BY <2>1, <2>2, <2>3, <2>4, <2>5, <2>6 DEF ChoiceNext, Running, Cell!Next, Cell!vars
  <1> QED
    BY <1>1, <1>2, ChoiceInvariance, PTL DEF ChoiceSpec, ImplementsCell, Cell!Spec

(***************************************************************************)
(* The session.  What the driver knows of a server outlives SQLDisconnect. *)
(* The inductive invariant says at each place of a connect whether there   *)
(* is a session (SessionInv), which driver it runs on (DriverInv) and what *)
(* is already this server's and not the last one's (ServerInv).            *)
(***************************************************************************)
Before == {"driver", "url", "connect"}
After  == {"mode", "select", "configs", "iconvs", "timezone"}

\* The handle has a session from the connect on, and the server no other.
SessionInv ==
  /\ pc \in Before => taos = NoSession
  /\ pc \in After => taos # NoSession
  /\ sessions = IF taos = NoSession THEN 0 ELSE 1

\* From its choice on, the driver of the process is the one the URL calls for.
DriverInv ==
  (pc \in {"url", "connect"} \/ taos # NoSession) =>
    driver_type = IF cfg.url = NoUrl THEN "native" ELSE "websocket"

\* What was read of the server so far is this one's.
ServerInv ==
  /\ pc \in {"iconvs", "timezone"} => s_charset = Server.charset
  /\ pc = "timezone" \/ Connected => charsets = IF cfg.url = NoUrl THEN Server.charset ELSE "UTF-8"
  /\ Connected => tz_seconds = Server.tz

IInv == TypeOK /\ SessionInv /\ DriverInv /\ ServerInv

-----------------------------------------------------------------------------
\* A connect gives a session, and what follows does not take it for none.
LEMMA ASession ==
  ASSUME NEW c
  PROVE  taos_connect_with(c) # NoSession /\ {"host", "db", "bi"} \subseteq DOMAIN taos_connect_with(c)
  <1>1. DOMAIN taos_connect_with(c) = {"host", "port", "user", "pass", "db", "compression", "bi"}
    BY DEF taos_connect_with
  <1>2. DOMAIN NoSession = {"host"}
    BY DEF NoSession
  <1> QED BY <1>1, <1>2

\* The fields of a configuration are there whatever is parsed or filled in.
LEMMA Fields ==
  /\ \A str : DOMAIN conn_parser_parse(str) = DOMAIN conn_cfg_release
  /\ \A dsn : DOMAIN _conn_cfg_init_by_dsn(conn_cfg_release, dsn) = DOMAIN conn_cfg_release
  /\ \A c : /\ DOMAIN _conn_fill_cfg_from_url(c) = DOMAIN c
            /\ "url" \in DOMAIN c => _conn_fill_cfg_from_url(c).url = c.url
  <1>1. \A str : DOMAIN conn_parser_parse(str) = DOMAIN conn_cfg_release
    BY DEF conn_parser_parse
  <1>2. ASSUME NEW dsn PROVE DOMAIN _conn_cfg_init_by_dsn(conn_cfg_release, dsn) = DOMAIN conn_cfg_release
    <2>1. ASSUME NEW c, NEW e
          PROVE  /\ DOMAIN DsnUrl(c, dsn, e) = DOMAIN c
                 /\ DOMAIN DsnServer(c, e) = DOMAIN c
                 /\ DOMAIN DsnFlags(c, e) = DOMAIN c
                 /\ DOMAIN DsnRest(c, e) = DOMAIN c
      BY DEF DsnUrl, DsnServer, DsnFlags, DsnRest
    <2> DEFINE e   == Odbc_ini[dsn]
               url == DsnUrl(conn_cfg_release, dsn, e)
               db  == DsnFlags(DsnServer(url, e), e)
    <2>2. DOMAIN url = DOMAIN conn_cfg_release
      BY <2>1
    <2>3. DOMAIN db = DOMAIN conn_cfg_release /\ DOMAIN DsnRest(db, e) = DOMAIN conn_cfg_release
      BY <2>1, <2>2
    <2> QED BY <2>2, <2>3 DEF _conn_cfg_init_by_dsn
  <1>3. \A c : /\ DOMAIN _conn_fill_cfg_from_url(c) = DOMAIN c
               /\ "url" \in DOMAIN c => _conn_fill_cfg_from_url(c).url = c.url
    BY DEF _conn_fill_cfg_from_url
  <1> QED BY <1>1, <1>2, <1>3

LEMMA HasUrl == "url" \in DOMAIN conn_cfg_release
  BY DEF conn_cfg_release

\* A server tells its own character set.
LEMMA Charset == Server.charset \in {Servers[h].charset : h \in DOMAIN Servers}
  BY ConnectAssumption DEF Server

LEMMA InitIInv == Init => IInv
  BY HasUrl DEF Init, IInv, TypeOK, SessionInv, DriverInv, ServerInv, Before, After, Connected

-----------------------------------------------------------------------------
\* However a session ends, what was read of its server stays, and binds nothing.
LEMMA DisconnectIInv ==
  ASSUME IInv, conn_disconnect, taos # NoSession, pc' = "idle",
         s_charset' \in {s_charset, Server.charset}, ret' \in {"none", "error"}
  PROVE  IInv'
  <1>1. taos' = NoSession /\ sessions' = 0 /\ DOMAIN cfg' = DOMAIN conn_cfg_release
    BY DEF conn_disconnect, IInv, SessionInv
  <1>2. TypeOK'
    BY <1>1, Charset DEF conn_disconnect, IInv, TypeOK
  <1>3. SessionInv' /\ DriverInv' /\ ServerInv'
    BY <1>1 DEF SessionInv, DriverInv, ServerInv, Before, After, Connected
  <1> QED BY <1>2, <1>3 DEF IInv

\* The steps outside a connect.
LEMMA NoCallIInv ==
  ASSUME IInv, SQLDisconnect \/ _conn_check_alive \/ Lose \/ OtherHandle
  PROVE  IInv'
  <1>1. CASE SQLDisconnect
    BY <1>1, DisconnectIInv DEF SQLDisconnect, Return
  <1> USE DEF IInv, TypeOK, SessionInv, DriverInv, ServerInv, Before, After, Connected, Server
  <1>2. CASE _conn_check_alive
    BY <1>2 DEF _conn_check_alive
  <1>3. CASE Lose
    BY <1>3 DEF Lose, conn
  <1>4. CASE OtherHandle
    BY <1>4 DEF OtherHandle, conn
  <1> QED BY <1>1, <1>2, <1>3, <1>4

LEMMA CallIInv ==
  ASSUME IInv, NEW a, SQLDriverConnect(a) \/ SQLConnect(a)
  PROVE  IInv'
  <1>1. ASSUME NEW parsed, NEW fails, Call(a, parsed, fails), DOMAIN parsed = DOMAIN conn_cfg_release
        PROVE  IInv'
    BY <1>1 DEF Call, Return, IInv, TypeOK, SessionInv, DriverInv, ServerInv, Before, After, Connected
  <1>2. CASE SQLDriverConnect(a)
    BY <1>1, <1>2, Fields DEF SQLDriverConnect
  <1>3. CASE SQLConnect(a)
    <2> DEFINE c == _conn_cfg_init_by_dsn(conn_cfg_release, a.dsn)
    <2>1. DOMAIN c = DOMAIN conn_cfg_release /\ DOMAIN [c EXCEPT !.uid = a.uid, !.pwd = a.pwd] = DOMAIN conn_cfg_release
      BY Fields
    <2>2. Call(a, c, TRUE) \/ Call(a, [c EXCEPT !.uid = a.uid, !.pwd = a.pwd], FALSE)
      BY <1>3 DEF SQLConnect
    <2> HIDE DEF c
    <2> QED BY <1>1, <2>1, <2>2
  <1> QED BY <1>2, <1>3

LEMMA DriverStepIInv ==
  ASSUME IInv, Driver
  PROVE  IInv'
  <1>1. CASE Fails /\ pc \in Before
    BY <1>1 DEF Fails, Return, conn, IInv, TypeOK, SessionInv, DriverInv, ServerInv, Before, After, Connected
  <1>2. CASE GiveUp /\ pc \in After
    BY <1>2, DisconnectIInv DEF GiveUp, Return, IInv, SessionInv
  <1>3. ASSUME NEW set, taos' = [taos EXCEPT !.bi = set] \/ taos' = [taos EXCEPT !.db = set] \/ taos' = taos,
               taos # NoSession
        PROVE  taos' # NoSession /\ DOMAIN taos' = DOMAIN taos /\ Server' = Server
    <2>1. {"host", "db", "bi"} \subseteq DOMAIN taos
      BY <1>3 DEF IInv, TypeOK
    <2>2. DOMAIN taos' = DOMAIN taos /\ taos'.host = taos.host
      BY <1>3, <2>1
    <2>3. taos' # NoSession
      BY <2>1, <2>2 DEF NoSession
    <2> QED BY <2>2, <2>3 DEF Server
  <1>4. CASE TaosConnect
    <2>1. CASE Fails
      BY <1>1, <1>4, <2>1 DEF TaosConnect, Before
    <2>2. CASE taos' = taos_connect_with(cfg) /\ ~Fails
      <3>1. taos' # NoSession /\ {"host", "db", "bi"} \subseteq DOMAIN taos'
        BY <2>2, ASession
      <3>2. /\ pc = "connect" /\ pc' = "mode" /\ sessions' = sessions + 1
            /\ UNCHANGED <<cfg, s_charset, charsets, tz_seconds, driver_type, ret>>
        BY <1>4, <2>2 DEF TaosConnect, Goto
      <3>3. sessions = 0
        BY <3>2, Zenon DEF IInv, SessionInv, Before
      <3>4. sessions' = 1
        BY <3>2, <3>3
      <3>5. SessionInv'
        BY <3>1, <3>2, <3>4 DEF SessionInv, Before, After
      <3>6. TypeOK' /\ DriverInv' /\ ServerInv'
        BY <3>1, <3>2 DEF IInv, TypeOK, DriverInv, ServerInv, Connected
      <3> QED BY <3>5, <3>6 DEF IInv
    <2> QED BY <1>4, <2>1, <2>2 DEF TaosConnect
  <1> USE DEF IInv, TypeOK, SessionInv, DriverInv, ServerInv, Before, After, Connected
  <1>5. CASE InitDriver
    BY <1>1, <1>5 DEF InitDriver, Goto, conn
  <1>6. CASE FillFromUrl
    BY <1>1, <1>6, Fields, HasUrl DEF FillFromUrl, Goto, conn
  <1>7. CASE SetConnMode
    BY <1>2, <1>3, <1>7 DEF SetConnMode, Proceed, Goto
  <1>8. CASE SelectDb
    <2>1. CASE taos' = IF cfg.db \in SystemDbs THEN [taos EXCEPT !.db = cfg.db] ELSE taos
      BY <1>2, <1>3, <1>8, <2>1 DEF SelectDb, Proceed, Goto
    <2>2. CASE cfg.db \in SystemDbs /\ GiveUp
      BY <1>2, <1>8, <2>2 DEF SelectDb
    <2> QED BY <1>8, <2>1, <2>2 DEF SelectDb
  <1>9. CASE GetConfigs
    <2>1. CASE s_charset' = _conn_save /\ Proceed("iconvs") /\ UNCHANGED <<taos, charsets, tz_seconds>>
      BY <1>9, <2>1, Charset DEF GetConfigs, _conn_save, Proceed, Goto, Server
    <2>2. CASE s_charset' \in {s_charset, _conn_save} /\ Return("error") /\ conn_disconnect
      BY <1>9, <2>2, DisconnectIInv DEF GetConfigs, _conn_save, Return
    <2> QED BY <1>9, <2>1, <2>2 DEF GetConfigs
  <1>10. CASE SetupIconvs
    BY <1>2, <1>10 DEF SetupIconvs, Proceed, Goto, Server
  <1>11. CASE GetTimezone
    BY <1>2, <1>11 DEF GetTimezone, Server
  <1> QED BY <1>4, <1>5, <1>6, <1>7, <1>8, <1>9, <1>10, <1>11 DEF Driver

LEMMA StutterIInv == IInv /\ UNCHANGED vars => IInv'
  BY DEF vars, conn, IInv, TypeOK, SessionInv, DriverInv, ServerInv, Connected, Server

\* The inductive invariant.
THEOREM Invariance == Spec => []IInv
  <1>1. IInv /\ [Next]_vars => IInv'
    BY NoCallIInv, CallIInv, DriverStepIInv, StutterIInv DEF Next
  <1> QED BY <1>1, InitIInv, PTL DEF Spec

-----------------------------------------------------------------------------
\* Type correctness, for any data sources, servers and calls.
THEOREM TypeCorrect == Spec => []TypeOK
  BY Invariance, PTL DEF IInv

\* Whatever step of a connect fails, no session is left behind.
THEOREM NoSessionLeft == Spec => []SessionsClosed
  <1>1. IInv => SessionsClosed
    BY DEF IInv, SessionInv, SessionsClosed
  <1> QED BY <1>1, Invariance, PTL

\* However often the handle has been connected elsewhere before, texts and timestamps
\* are converted for the server it is connected to.
THEOREM ServerKnown == Spec => []CharsetIsServers
  <1>1. IInv => CharsetIsServers
    BY DEF IInv, DriverInv, ServerInv, CharsetIsServers, Connected
  <1> QED BY <1>1, Invariance, PTL

-----------------------------------------------------------------------------
(* Naturals.                                                               *)

\* A set of naturals that is not empty has a least member.
LEMMA Least ==
  ASSUME NEW C \in SUBSET Nat, C # {}
  PROVE  \E n \in C : \A m \in C : n <= m
  <1> DEFINE R == OpToRel(<, Nat)
  <1>1. IsWellFoundedOn(R, Nat)
    BY NatLessThanWellFounded
  <1>2. \A x, y \in Nat : <<x, y>> \in R <=> x < y
    BY DEF OpToRel
  <1> HIDE DEF R
  <1>3. PICK x \in C : \A y \in C : ~(<<y, x>> \in R)
    BY <1>1, WFMin
  <1>4. \A y \in C : y \in Nat
    OBVIOUS
  <1>5. \A y \in C : ~(y < x)
    BY <1>2, <1>3, <1>4
  <1>6. \A y \in C : x <= y
    BY <1>4, <1>5
  <1> QED BY <1>6

\* Induction: what holds of 0 and is passed on holds of every natural.
LEMMA Induct ==
  ASSUME NEW S \in SUBSET Nat, 0 \in S, \A n \in S : n + 1 \in S
  PROVE  S = Nat
  <1> DEFINE C == Nat \ S
  <1> SUFFICES ASSUME C # {} PROVE FALSE
    OBVIOUS
  <1>1. PICK n \in C : \A m \in C : n <= m
    BY Least
  <1>2. n \in Nat /\ n # 0
    OBVIOUS
  <1>3. n - 1 \in Nat /\ ~(n <= n - 1)
    BY <1>2
  <1>4. n - 1 \in S
    BY <1>1, <1>3
  <1>5. (n - 1) + 1 = n
    BY <1>2
  <1>6. n \in S
    BY <1>4, <1>5
  <1> QED BY <1>6

\* The greatest member of a bounded set of naturals.
LEMMA Greatest ==
  ASSUME NEW n \in Nat, NEW C \in SUBSET (0..n), C # {}
  PROVE  Max(C) \in C /\ \A m \in C : m <= Max(C)
  <1> DEFINE U == {k \in Nat : \A m \in C : m <= k}
  <1>0. \A m \in C : m \in Nat /\ m <= n
    OBVIOUS
  <1>1. n \in U
    BY <1>0
  <1>2. PICK k \in U : \A j \in U : k <= j
    BY <1>1, Least
  <1>3. k \in C
    <2> SUFFICES ASSUME k \notin C PROVE FALSE
      OBVIOUS
    <2>1. PICK m \in C : TRUE
      OBVIOUS
    <2>2. k \in Nat /\ m <= k /\ m # k /\ m \in Nat
      BY <1>0
    <2>3. k - 1 \in Nat /\ ~(k <= k - 1)
      BY <2>2
    <2>4. \A j \in C : j <= k - 1
      <3> SUFFICES ASSUME NEW j \in C PROVE j <= k - 1
        OBVIOUS
      <3>1. j \in Nat /\ j <= k /\ j # k
        BY <1>0
      <3> QED BY <2>2, <3>1
    <2>5. k - 1 \in U
      BY <2>3, <2>4
    <2> QED BY <1>2, <2>3, <2>5
  <1>4. \A m \in C : k >= m
    BY <1>0, <1>2
  <1>5. \E x \in C : \A m \in C : x >= m
    BY <1>3, <1>4
  <1>6. Max(C) \in C /\ \A m \in C : Max(C) >= m
    BY <1>5 DEF Max
  <1> QED BY <1>0, <1>6

LEMMA MaxOfUpTo ==
  ASSUME NEW k \in Nat, NEW s \in SUBSET (1..(k + 1)), k + 1 \in s
  PROVE  Max(s) = k + 1
  <1>1. s \in SUBSET (0..(k + 1)) /\ s # {}
    OBVIOUS
  <1>2. Max(s) \in s /\ \A m \in s : m <= Max(s)
    <2>1. k + 1 \in Nat
      OBVIOUS
    <2> QED BY <1>1, <2>1, Greatest
  <1>3. Max(s) \in 1..(k + 1) /\ k + 1 <= Max(s)
    BY <1>2
  <1> QED BY <1>3

-----------------------------------------------------------------------------
(* The parts of a connection string, set one after the other.              *)

\* What is set when the places in s are done, from the greatest of a set of places.
Sets(g, str, S) ==
  g = [s \in SUBSET S |-> IF s = {} THEN conn_cfg_release ELSE Set(g[s \ {Max(s)}], str[Max(s)])]

LEMMA SetsExist ==
  ASSUME NEW str, NEW n \in Nat
  PROVE  \E g : Sets(g, str, 1..n)
  <1> DEFINE S == {k \in Nat : \E g : Sets(g, str, 1..k)}
  <1>1. 0 \in S
    <2> DEFINE g == [s \in SUBSET (1..0) |-> conn_cfg_release]
    <2>1. g = [s \in SUBSET (1..0) |-> IF s = {} THEN conn_cfg_release ELSE Set(g[s \ {Max(s)}], str[Max(s)])]
      OBVIOUS
    <2> HIDE DEF g
    <2>2. Sets(g, str, 1..0)
      BY <2>1 DEF Sets
    <2> QED BY <2>2
  <1>2. ASSUME NEW k \in Nat, NEW f, Sets(f, str, 1..k) PROVE \E g : Sets(g, str, 1..(k + 1))
    <2> DEFINE T == 1..(k + 1)
               g == [s \in SUBSET T |-> IF k + 1 \in s THEN Set(f[s \ {k + 1}], str[k + 1]) ELSE f[s]]
    <2>1. f = [s \in SUBSET (1..k) |-> IF s = {} THEN conn_cfg_release ELSE Set(f[s \ {Max(s)}], str[Max(s)])]
      BY <1>2 DEF Sets
    <2>2. ASSUME NEW s \in SUBSET T
          PROVE  g[s] = IF s = {} THEN conn_cfg_release ELSE Set(g[s \ {Max(s)}], str[Max(s)])
      <3>1. CASE k + 1 \in s
        <4>1. Max(s) = k + 1 /\ s # {} /\ s \ {k + 1} \in SUBSET T /\ k + 1 \notin s \ {k + 1}
          BY <3>1, MaxOfUpTo
        <4>2. g[s \ {k + 1}] = f[s \ {k + 1}]
          BY <4>1
        <4>3. g[s] = Set(f[s \ {k + 1}], str[k + 1])
          BY <3>1
        <4> QED BY <4>1, <4>2, <4>3
      <3>2. CASE k + 1 \notin s
        <4>0. \A j \in s : j \in 1..k
          <5> TAKE j \in s
          <5>1. j \in 1..(k + 1) /\ j # k + 1
            BY <3>2
          <5> QED BY <5>1
        <4>1. s \in SUBSET (1..k) /\ s \ {Max(s)} \in SUBSET T /\ k + 1 \notin s \ {Max(s)}
          BY <3>2, <4>0
        <4>2. g[s] = f[s] /\ g[s \ {Max(s)}] = f[s \ {Max(s)}]
          BY <3>2, <4>1
        <4>3. f[s] = IF s = {} THEN conn_cfg_release ELSE Set(f[s \ {Max(s)}], str[Max(s)])
          BY <2>1, <4>1
        <4> QED BY <4>2, <4>3
      <3> QED BY <3>1, <3>2
    <2>3. g = [s \in SUBSET T |-> g[s]]
      OBVIOUS
    <2> HIDE DEF g
    <2>4. g = [s \in SUBSET T |-> IF s = {} THEN conn_cfg_release ELSE Set(g[s \ {Max(s)}], str[Max(s)])]
      BY <2>2, <2>3
    <2>5. Sets(g, str, T)
      BY <2>4 DEF Sets
    <2> QED BY <2>5
  <1>3. ASSUME NEW k \in S PROVE k + 1 \in S
    BY <1>2
  <1>4. S \subseteq Nat
    OBVIOUS
  <1> HIDE DEF S
  <1>5. n \in S
    BY <1>1, <1>3, <1>4, Induct
  <1> QED BY <1>5 DEF S

\* f[k] is what the first k parts set.
Parsing(f, str) ==
  /\ f[0] = conn_cfg_release
  /\ \A k \in Nat : k + 1 <= Len(str) => f[k + 1] = Set(f[k], str[k + 1])

LEMMA FoldParses ==
  ASSUME NEW B, NEW str \in Seq(B)
  PROVE  \E f : Parsing(f, str) /\ FoldLeft(Set, conn_cfg_release, str) = f[Len(str)]
  <1> DEFINE n == Len(str)
             h == CHOOSE g : g = [s \in SUBSET DOMAIN str |->
                                    IF s = {} THEN conn_cfg_release ELSE Set(g[s \ {Max(s)}], str[Max(s)])]
             f == [k \in 0..n |-> h[1..k]]
  <1>1. n \in Nat /\ DOMAIN str = 1..n
    BY LenProperties
  <1>2. FoldLeft(Set, conn_cfg_release, str) = h[DOMAIN str]
    BY DEF FoldLeft, MapThenFoldSet
  <1>3. \E g : Sets(g, str, 1..n)
    BY <1>1, SetsExist
  <1>4. h = CHOOSE g : Sets(g, str, 1..n)
    BY <1>1 DEF Sets
  <1>5. Sets(h, str, 1..n)
    <2> HIDE DEF h
    <2> QED BY <1>3, <1>4
  <1> HIDE DEF h
  <1>6. h = [s \in SUBSET (1..n) |-> IF s = {} THEN conn_cfg_release ELSE Set(h[s \ {Max(s)}], str[Max(s)])]
    BY <1>5 DEF Sets
  <1> HIDE DEF n
  <1>7. f[0] = conn_cfg_release
    <2>1. 0 \in 0..n /\ 1..0 = {}
      BY <1>1
    <2> QED BY <1>6, <2>1
  <1>8. ASSUME NEW k \in Nat, k + 1 <= n PROVE f[k + 1] = Set(f[k], str[k + 1])
    <2> DEFINE s == 1..(k + 1)
    <2>1. \A j \in s : j \in 1..n
      BY <1>1, <1>8
    <2>2. s \in SUBSET (1..n) /\ k + 1 \in s /\ s # {}
      <3>1. k + 1 \in s
        OBVIOUS
      <3> QED BY <2>1, <3>1
    <2>3. Max(s) = k + 1 /\ s \ {k + 1} = 1..k
      BY <2>2, MaxOfUpTo
    <2>4. h[s] = Set(h[s \ {Max(s)}], str[Max(s)])
      <3> HIDE DEF s
      <3> QED BY <1>6, <2>2
    <2>5. f[k + 1] = h[s] /\ f[k] = h[1..k]
      BY <1>1, <1>8
    <2> QED BY <2>3, <2>4, <2>5
  <1>9. f[n] = h[1..n]
    BY <1>1
  <1> HIDE DEF f
  <1>10. Parsing(f, str)
    BY <1>7, <1>8 DEF Parsing, n
  <1> QED BY <1>1, <1>2, <1>9, <1>10 DEF n

-----------------------------------------------------------------------------
(* What a string says of each key, after its first k parts.                *)

SaidBy(str, k, key, in_dsn) ==
  LET ks == {j \in 1..k : str[j].key = key}
  IN  IF ks = {} THEN in_dsn ELSE str[CHOOSE j \in ks : \A i \in ks : i <= j]

LEMMA NothingSaid ==
  ASSUME NEW str, NEW key, NEW in_dsn
  PROVE  SaidBy(str, 0, key, in_dsn) = in_dsn
  BY DEF SaidBy

\* The last part that names the key counts.
LEMMA LastSays ==
  ASSUME NEW str, NEW k \in Nat, NEW key, NEW in_dsn
  PROVE  SaidBy(str, k + 1, key, in_dsn) = IF str[k + 1].key = key THEN str[k + 1] ELSE SaidBy(str, k, key, in_dsn)
  <1> DEFINE now == {j \in 1..(k + 1) : str[j].key = key}
             was == {j \in 1..k : str[j].key = key}
  <1>1. CASE str[k + 1].key = key
    <2>1. k + 1 \in now /\ \A i \in now : i <= k + 1 /\ i \in Nat
      BY <1>1
    <2>2. \A j \in now : (\A i \in now : i <= j) => j = k + 1
      <3> TAKE j \in now
      <3> HIDE DEF now
      <3> QED BY <2>1
    <2> DEFINE best == CHOOSE j \in now : \A i \in now : i <= j
    <2>3. best = k + 1
      <3> HIDE DEF now
      <3> QED BY <2>1, <2>2
    <2> QED BY <1>1, <2>1, <2>3 DEF SaidBy
  <1>2. CASE str[k + 1].key # key
    <2>1. \A j \in 1..(k + 1) : str[j].key = key => j \in 1..k
      BY <1>2
    <2>2. now = was
      BY <2>1
    <2> DEFINE pick(ks) == IF ks = {} THEN in_dsn ELSE str[CHOOSE j \in ks : \A i \in ks : i <= j]
    <2>3. SaidBy(str, k + 1, key, in_dsn) = pick(now) /\ SaidBy(str, k, key, in_dsn) = pick(was)
      BY DEF SaidBy
    <2> HIDE DEF now, was, pick
    <2> QED BY <1>2, <2>2, <2>3
  <1> QED BY <1>1, <1>2

-----------------------------------------------------------------------------
(* A call that parses sets what it says.                                   *)

Keys == Odbc_attr \cup Url_attr \cup Attribute

\* Every part but the first sets the field of its key and no other.
LEMMA SetFields ==
  ASSUME NEW c, DOMAIN c = DOMAIN conn_cfg_release, NEW part, part.key \in Keys
  PROVE  /\ DOMAIN Set(c, part) = DOMAIN conn_cfg_release
         /\ Set(c, part).uid = IF part.key = "UID" THEN part.val ELSE c.uid
         /\ Set(c, part).pwd = IF part.key = "PWD" THEN part.val ELSE c.pwd
         /\ Set(c, part).db = IF part.key = "DB" THEN part.val ELSE c.db
         /\ Set(c, part).ip = IF part.key = "SERVER" THEN part.val ELSE c.ip
         /\ Set(c, part).port = IF part.key = "SERVER" THEN part.port ELSE c.port
         /\ Set(c, part).url = IF part.key = "URL" THEN part.val ELSE c.url
         /\ Set(c, part).conn_mode = IF part.key = "CONN_MODE" THEN part.val \notin Zeros ELSE c.conn_mode
         /\ Set(c, part).compression = IF part.key = "COMPRESSION" THEN part.val ELSE c.compression
  <1>1. DOMAIN c = {"driver", "dsn", "backend", "url", "uid", "pwd", "ip", "port", "db", "col_bind", "param_bind", "product",
                    "unsigned_promotion", "timestamp_as_is", "conn_mode", "compression"}
    BY DEF conn_cfg_release
  <1> USE DEF Set
  <1>2. CASE part.key = "UID"
    BY <1>1, <1>2
  <1>3. CASE part.key = "PWD"
    BY <1>1, <1>3
  <1>4. CASE part.key = "DB"
    BY <1>1, <1>4
  <1>5. CASE part.key = "URL"
    BY <1>1, <1>5
  <1>6. CASE part.key = "SERVER"
    BY <1>1, <1>6 DEF Set_FQDN
  <1>7. CASE part.key = "CONN_MODE"
    BY <1>1, <1>7
  <1>8. CASE part.key = "COMPRESSION"
    BY <1>1, <1>8
  <1>9. CASE part.key = "CHARSET_FOR_COL_BIND"
    BY <1>1, <1>9
  <1>10. CASE part.key = "CHARSET_FOR_PARAM_BIND"
    BY <1>1, <1>10
  <1>11. CASE part.key = "UNSIGNED_PROMOTION"
    BY <1>1, <1>11
  <1>12. CASE part.key = "TIMESTAMP_AS_IS"
    BY <1>1, <1>12
  <1>13. CASE part.key = "ID"
    BY <1>1, <1>13
  <1>14. CASE part.key = "CUSTOMPRODUCT"
    BY <1>1, <1>14
  <1> QED BY <1>2, <1>3, <1>4, <1>5, <1>6, <1>7, <1>8, <1>9, <1>10, <1>11, <1>12, <1>13, <1>14
          DEF Keys, Odbc_attr, Url_attr, Attribute

\* What is read of a data source, or of none, as far as the session goes by it.
NoDsn == [server |-> [host |-> "", port |-> 0], db |-> "", conn_mode |-> "0", compression |-> "", url |-> NoUrl]
InDsn(a) == IF DsnOf(a) = "none" THEN NoDsn ELSE Odbc_ini[DsnOf(a)]

Compressed(text) == IF text = "" THEN "unset" ELSE text

\* The fields of c are what uid to zip are.
Cfg(c, uid, pwd, db, server, url, mode, zip) ==
  /\ DOMAIN c = DOMAIN conn_cfg_release
  /\ c.uid = uid /\ c.pwd = pwd /\ c.db = db /\ c.ip = server.val /\ c.port = server.port /\ c.url = url
  /\ c.conn_mode = (mode \notin Zeros) /\ c.compression = Compressed(zip)

\* ... what str says in its first k parts, over what the data source e does.
SetBy(c, str, k, e) ==
  Cfg(c, SaidBy(str, k, "UID", [val |-> ""]).val, SaidBy(str, k, "PWD", [val |-> ""]).val,
      SaidBy(str, k, "DB", [val |-> e.db]).val,
      SaidBy(str, k, "SERVER", [val |-> e.server.host, port |-> e.server.port]),
      SaidBy(str, k, "URL", [val |-> e.url]).val,
      SaidBy(str, k, "CONN_MODE", [val |-> Counted(e.conn_mode)]).val,
      SaidBy(str, k, "COMPRESSION", [val |-> e.compression]).val)

LEMMA SetsAPart ==
  ASSUME NEW str, NEW k \in Nat, NEW c, NEW e, SetBy(c, str, k, e), str[k + 1].key \in Keys,
         str[k + 1].key = "COMPRESSION" => str[k + 1].val \in {"0", "1"}
  PROVE  SetBy(Set(c, str[k + 1]), str, k + 1, e)
  <1> DEFINE part == str[k + 1]
             y == Set(c, part)
  <1>1. DOMAIN c = DOMAIN conn_cfg_release
    BY DEF SetBy, Cfg
  <1>2. /\ DOMAIN y = DOMAIN conn_cfg_release
        /\ y.uid = IF part.key = "UID" THEN part.val ELSE c.uid
        /\ y.pwd = IF part.key = "PWD" THEN part.val ELSE c.pwd
        /\ y.db = IF part.key = "DB" THEN part.val ELSE c.db
        /\ y.ip = IF part.key = "SERVER" THEN part.val ELSE c.ip
        /\ y.port = IF part.key = "SERVER" THEN part.port ELSE c.port
        /\ y.url = IF part.key = "URL" THEN part.val ELSE c.url
        /\ y.conn_mode = IF part.key = "CONN_MODE" THEN part.val \notin Zeros ELSE c.conn_mode
        /\ y.compression = IF part.key = "COMPRESSION" THEN part.val ELSE c.compression
    BY <1>1, SetFields
  <1>3. \A key, d : SaidBy(str, k + 1, key, d) = IF part.key = key THEN part ELSE SaidBy(str, k, key, d)
    BY LastSays
  <1>5. part.key = "COMPRESSION" => part.val # ""
    OBVIOUS
  <1> HIDE DEF part, y
  <1> DEFINE was(key, d) == SaidBy(str, k, key, d)
             now(key, d) == SaidBy(str, k + 1, key, d)
             server == [val |-> e.server.host, port |-> e.server.port]
  <1>6. \A key, d : now(key, d) = IF part.key = key THEN part ELSE was(key, d)
    BY <1>3
  <1>7. /\ c.uid = was("UID", [val |-> ""]).val /\ c.pwd = was("PWD", [val |-> ""]).val
        /\ c.db = was("DB", [val |-> e.db]).val
        /\ c.ip = was("SERVER", server).val /\ c.port = was("SERVER", server).port
        /\ c.url = was("URL", [val |-> e.url]).val
        /\ c.conn_mode = (was("CONN_MODE", [val |-> Counted(e.conn_mode)]).val \notin Zeros)
        /\ c.compression = Compressed(was("COMPRESSION", [val |-> e.compression]).val)
    BY DEF SetBy, Cfg
  <1> HIDE DEF was, now, server
  <1>8. y.uid = now("UID", [val |-> ""]).val /\ y.pwd = now("PWD", [val |-> ""]).val
    BY <1>2, <1>6, <1>7
  <1>9. y.db = now("DB", [val |-> e.db]).val /\ y.url = now("URL", [val |-> e.url]).val
    BY <1>2, <1>6, <1>7
  <1>10. y.ip = now("SERVER", server).val /\ y.port = now("SERVER", server).port
    BY <1>2, <1>6, <1>7
  <1>11. y.conn_mode = (now("CONN_MODE", [val |-> Counted(e.conn_mode)]).val \notin Zeros)
    <2>1. CASE part.key = "CONN_MODE"
      <3>1. y.conn_mode = (part.val \notin Zeros)
        BY <1>2, <2>1
      <3>2. now("CONN_MODE", [val |-> Counted(e.conn_mode)]) = part
        BY <1>6, <2>1
      <3> QED BY <3>1, <3>2
    <2>2. CASE part.key # "CONN_MODE"
      BY <1>2, <1>6, <1>7, <2>2
    <2> QED BY <2>1, <2>2
  <1>12. y.compression = Compressed(now("COMPRESSION", [val |-> e.compression]).val)
    <2>1. CASE part.key = "COMPRESSION"
      <3>1. Compressed(part.val) = part.val
        BY <1>5, <2>1 DEF Compressed
      <3> QED BY <1>2, <1>6, <2>1, <3>1
    <2>2. CASE part.key # "COMPRESSION"
      BY <1>2, <1>6, <1>7, <2>2
    <2> QED BY <2>1, <2>2
  <1>13. SetBy(y, str, k + 1, e)
    BY <1>2, <1>8, <1>9, <1>10, <1>11, <1>12 DEF SetBy, Cfg, now, server
  <1> QED BY <1>13 DEF part, y

\* A data source, or none, says what a connection string does not.
Read(c, e) ==
  Cfg(c, "", "", e.db, [val |-> e.server.host, port |-> e.server.port], e.url, Counted(e.conn_mode), e.compression)

\* A mode of one digit, and no other, is counted as other than zero.
LEMMA OneDigitCounts ==
  ASSUME NEW text
  PROVE  (text \in OneDigit) <=> (Counted(text) \notin Zeros)
  <1>1. "0" \in Zeros /\ \A d \in OneDigit : d \notin Zeros
    BY ConnectAssumption
  <1>2. CASE text \in OneDigit
    BY <1>1, <1>2 DEF Counted
  <1>3. CASE text \notin OneDigit
    <2>1. Counted(text) = "0"
      BY <1>3 DEF Counted
    <2> QED BY <1>1, <1>3, <2>1
  <1> QED BY <1>2, <1>3

LEMMA DsnIsRead ==
  ASSUME NEW dsn, ~DsnFails(Odbc_ini[dsn])
  PROVE  Read(_conn_cfg_init_by_dsn(conn_cfg_release, dsn), Odbc_ini[dsn])
  <1> DEFINE e == Odbc_ini[dsn]
             c == conn_cfg_release
             u == DsnUrl(c, dsn, e)
             s == DsnServer(u, e)
             f == DsnFlags(s, e)
             r == DsnRest(f, e)
  <1>1. _conn_cfg_init_by_dsn(c, dsn) = r
    BY DEF _conn_cfg_init_by_dsn, DsnFails
  <1>2. /\ DOMAIN c = {"driver", "dsn", "backend", "url", "uid", "pwd", "ip", "port", "db", "col_bind", "param_bind", "product",
                       "unsigned_promotion", "timestamp_as_is", "conn_mode", "compression"}
        /\ c.uid = "" /\ c.pwd = ""
    BY DEF conn_cfg_release
  <1> HIDE DEF c, e
  <1>3. DOMAIN u = DOMAIN c /\ u.uid = "" /\ u.pwd = "" /\ u.url = e.url
    BY <1>2 DEF DsnUrl
  <1> HIDE DEF u
  <1>4. DOMAIN s = DOMAIN c /\ s.uid = "" /\ s.pwd = "" /\ s.url = e.url /\ s.ip = e.server.host /\ s.port = e.server.port
    BY <1>2, <1>3 DEF DsnServer
  <1> HIDE DEF s
  <1>5. /\ DOMAIN f = DOMAIN c /\ f.uid = "" /\ f.pwd = "" /\ f.url = e.url /\ f.ip = e.server.host /\ f.port = e.server.port
        /\ f.db = e.db /\ f.conn_mode = (e.conn_mode \in OneDigit)
    BY <1>2, <1>4 DEF DsnFlags
  <1> HIDE DEF f
  <1>6. /\ DOMAIN r = DOMAIN c /\ r.uid = "" /\ r.pwd = "" /\ r.url = e.url /\ r.ip = e.server.host /\ r.port = e.server.port
        /\ r.db = e.db /\ r.conn_mode = (e.conn_mode \in OneDigit)
        /\ r.compression = IF e.compression = "" THEN "unset" ELSE e.compression
    BY <1>2, <1>5 DEF DsnRest
  <1> HIDE DEF r
  <1>7. (e.conn_mode \in OneDigit) <=> (Counted(e.conn_mode) \notin Zeros)
    BY OneDigitCounts
  <1>8. r.conn_mode = (Counted(e.conn_mode) \notin Zeros)
    <2> DEFINE mode == e.conn_mode \in OneDigit
               on == Counted(e.conn_mode) \notin Zeros
    <2>1. r.conn_mode = mode
      BY <1>6, Zenon
    <2>2. mode \in BOOLEAN /\ on \in BOOLEAN /\ (mode <=> on)
      BY <1>7
    <2> HIDE DEF mode, on
    <2>3. r.conn_mode = on
      BY <2>1, <2>2
    <2> QED BY <2>3 DEF on
  <1>9. Read(r, e)
    BY <1>6, <1>8 DEF Read, Cfg, Compressed, c
  <1> QED BY <1>1, <1>9 DEF c, e

LEMMA NothingIsRead ==
  /\ Read(conn_cfg_release, NoDsn)
  /\ \A v : Read([conn_cfg_release EXCEPT !.driver = v], NoDsn)
  <1>1. (FALSE = (Counted(NoDsn.conn_mode) \notin Zeros)) /\ Compressed(NoDsn.compression) = "unset"
    BY ConnectAssumption DEF Counted, OneDigit, NoDsn, Compressed
  <1> QED BY <1>1 DEF Read, NoDsn, conn_cfg_release, Cfg

\* Where a string says nothing of the session, it is as read.
LEMMA SaysNothing ==
  ASSUME NEW c, NEW e, Read(c, e), NEW str, NEW k, \A key \in Keys : \A d : SaidBy(str, k, key, d) = d
  PROVE  SetBy(c, str, k, e)
  <1>1. {"UID", "PWD", "DB", "SERVER", "URL", "CONN_MODE", "COMPRESSION"} \subseteq Keys
    BY DEF Keys, Odbc_attr, Url_attr, Attribute
  <1> DEFINE said(key, d) == SaidBy(str, k, key, d)
  <1>2. \A key \in Keys : \A d : said(key, d) = d
    OBVIOUS
  <1> HIDE DEF said
  <1>3. said("UID", [val |-> ""]).val = ""
    <2>1. said("UID", [val |-> ""]) = [val |-> ""]
      BY <1>1, <1>2
    <2>2. \A v : [val |-> v].val = v
      OBVIOUS
    <2> QED BY <2>1, <2>2, Zenon
  <1>4. said("PWD", [val |-> ""]).val = ""
    <2>1. said("PWD", [val |-> ""]) = [val |-> ""]
      BY <1>1, <1>2
    <2>2. \A v : [val |-> v].val = v
      OBVIOUS
    <2> QED BY <2>1, <2>2, Zenon
  <1>5. said("DB", [val |-> e.db]).val = e.db
    BY <1>1, <1>2
  <1>6. said("SERVER", [val |-> e.server.host, port |-> e.server.port]) = [val |-> e.server.host, port |-> e.server.port]
    BY <1>1, <1>2
  <1>7. said("URL", [val |-> e.url]).val = e.url
    BY <1>1, <1>2
  <1>8. said("CONN_MODE", [val |-> Counted(e.conn_mode)]).val = Counted(e.conn_mode)
    BY <1>1, <1>2
  <1>9. said("COMPRESSION", [val |-> e.compression]).val = e.compression
    BY <1>1, <1>2
  <1>10. SetBy(c, str, k, e) =
           Cfg(c, said("UID", [val |-> ""]).val, said("PWD", [val |-> ""]).val, said("DB", [val |-> e.db]).val,
               said("SERVER", [val |-> e.server.host, port |-> e.server.port]), said("URL", [val |-> e.url]).val,
               said("CONN_MODE", [val |-> Counted(e.conn_mode)]).val, said("COMPRESSION", [val |-> e.compression]).val)
    BY DEF SetBy, said
  <1>11. SetBy(c, str, k, e) = Read(c, e)
    BY <1>3, <1>4, <1>5, <1>6, <1>7, <1>8, <1>9, <1>10, Zenon DEF Read
  <1> QED BY <1>11

\* What a call is expected to be, and that a connection string parses.
Given(a) ==
  \/ a.fn = "SQLConnect" /\ ~DsnFails(Odbc_ini[a.dsn])
  \/ a.fn = "SQLDriverConnect" /\ ~conn_parser_fails(a.str)

-----------------------------------------------------------------------------
(* The fields no session goes by, which the string handed back tells.      *)

Text(on) == IF on THEN "1" ELSE "0"

\* b is the configuration behind the first part.
SetRest(c, str, k, b) ==
  /\ DOMAIN c = DOMAIN conn_cfg_release
  /\ c.driver = b.driver /\ c.dsn = b.dsn /\ c.backend = b.backend
  /\ c.col_bind = SaidBy(str, k, "CHARSET_FOR_COL_BIND", [val |-> b.col_bind]).val
  /\ c.param_bind = SaidBy(str, k, "CHARSET_FOR_PARAM_BIND", [val |-> b.param_bind]).val
  /\ c.unsigned_promotion = (SaidBy(str, k, "UNSIGNED_PROMOTION", [val |-> Text(b.unsigned_promotion)]).val \notin Zeros)
  /\ c.timestamp_as_is = (SaidBy(str, k, "TIMESTAMP_AS_IS", [val |-> Text(b.timestamp_as_is)]).val \notin Zeros)
  /\ (\A j \in 1..k : str[j].key # "CUSTOMPRODUCT") => c.product = b.product

LEMMA SetRestFields ==
  ASSUME NEW c, DOMAIN c = DOMAIN conn_cfg_release, NEW part, part.key \in Keys
  PROVE  /\ DOMAIN Set(c, part) = DOMAIN conn_cfg_release
         /\ Set(c, part).driver = c.driver /\ Set(c, part).dsn = c.dsn /\ Set(c, part).backend = c.backend
         /\ Set(c, part).col_bind = IF part.key = "CHARSET_FOR_COL_BIND" THEN part.val ELSE c.col_bind
         /\ Set(c, part).param_bind = IF part.key = "CHARSET_FOR_PARAM_BIND" THEN part.val ELSE c.param_bind
         /\ Set(c, part).unsigned_promotion = IF part.key = "UNSIGNED_PROMOTION" THEN part.val \notin Zeros ELSE c.unsigned_promotion
         /\ Set(c, part).timestamp_as_is = IF part.key = "TIMESTAMP_AS_IS" THEN part.val \notin Zeros ELSE c.timestamp_as_is
         /\ part.key # "CUSTOMPRODUCT" => Set(c, part).product = c.product
  <1>1. DOMAIN c = {"driver", "dsn", "backend", "url", "uid", "pwd", "ip", "port", "db", "col_bind", "param_bind", "product",
                    "unsigned_promotion", "timestamp_as_is", "conn_mode", "compression"}
    BY DEF conn_cfg_release
  <1> USE DEF Set
  <1>2. CASE part.key \in {"UID", "PWD", "DB", "URL"}
    BY <1>1, <1>2
  <1>6. CASE part.key = "SERVER"
    BY <1>1, <1>6 DEF Set_FQDN
  <1>7. CASE part.key = "CONN_MODE"
    BY <1>1, <1>7
  <1>8. CASE part.key = "COMPRESSION"
    BY <1>1, <1>8
  <1>9. CASE part.key = "CHARSET_FOR_COL_BIND"
    BY <1>1, <1>9
  <1>10. CASE part.key = "CHARSET_FOR_PARAM_BIND"
    BY <1>1, <1>10
  <1>11. CASE part.key = "UNSIGNED_PROMOTION"
    BY <1>1, <1>11
  <1>12. CASE part.key = "TIMESTAMP_AS_IS"
    BY <1>1, <1>12
  <1>13. CASE part.key = "ID"
    BY <1>1, <1>13
  <1>14. CASE part.key = "CUSTOMPRODUCT"
    BY <1>1, <1>14
  <1> QED BY <1>2, <1>6, <1>7, <1>8, <1>9, <1>10, <1>11, <1>12, <1>13, <1>14
          DEF Keys, Odbc_attr, Url_attr, Attribute

LEMMA RestSetsAPart ==
  ASSUME NEW str, NEW k \in Nat, NEW c, NEW b, SetRest(c, str, k, b), str[k + 1].key \in Keys
  PROVE  SetRest(Set(c, str[k + 1]), str, k + 1, b)
  <1> DEFINE part == str[k + 1]
             y == Set(c, part)
  <1>1. DOMAIN c = DOMAIN conn_cfg_release
    BY DEF SetRest
  <1>2. /\ DOMAIN y = DOMAIN conn_cfg_release
        /\ y.driver = c.driver /\ y.dsn = c.dsn /\ y.backend = c.backend
        /\ y.col_bind = IF part.key = "CHARSET_FOR_COL_BIND" THEN part.val ELSE c.col_bind
        /\ y.param_bind = IF part.key = "CHARSET_FOR_PARAM_BIND" THEN part.val ELSE c.param_bind
        /\ y.unsigned_promotion = IF part.key = "UNSIGNED_PROMOTION" THEN part.val \notin Zeros ELSE c.unsigned_promotion
        /\ y.timestamp_as_is = IF part.key = "TIMESTAMP_AS_IS" THEN part.val \notin Zeros ELSE c.timestamp_as_is
        /\ part.key # "CUSTOMPRODUCT" => y.product = c.product
    BY <1>1, SetRestFields
  <1>3. \A key, d : SaidBy(str, k + 1, key, d) = IF part.key = key THEN part ELSE SaidBy(str, k, key, d)
    BY LastSays
  <1>4. (\A j \in 1..(k + 1) : str[j].key # "CUSTOMPRODUCT")
          => part.key # "CUSTOMPRODUCT" /\ \A j \in 1..k : str[j].key # "CUSTOMPRODUCT"
    <2>1. k + 1 \in 1..(k + 1) /\ \A j \in 1..k : j \in 1..(k + 1)
      OBVIOUS
    <2> QED BY <2>1
  <1> HIDE DEF part, y
  <1> DEFINE was(key, d) == SaidBy(str, k, key, d)
             now(key, d) == SaidBy(str, k + 1, key, d)
             up == [val |-> Text(b.unsigned_promotion)]
             ts == [val |-> Text(b.timestamp_as_is)]
  <1>5. \A key, d : now(key, d) = IF part.key = key THEN part ELSE was(key, d)
    BY <1>3
  <1>6. /\ c.driver = b.driver /\ c.dsn = b.dsn /\ c.backend = b.backend
        /\ c.col_bind = was("CHARSET_FOR_COL_BIND", [val |-> b.col_bind]).val
        /\ c.param_bind = was("CHARSET_FOR_PARAM_BIND", [val |-> b.param_bind]).val
        /\ c.unsigned_promotion = (was("UNSIGNED_PROMOTION", up).val \notin Zeros)
        /\ c.timestamp_as_is = (was("TIMESTAMP_AS_IS", ts).val \notin Zeros)
        /\ (\A j \in 1..k : str[j].key # "CUSTOMPRODUCT") => c.product = b.product
    BY DEF SetRest
  <1> HIDE DEF was, now, up, ts
  <1>7. /\ y.col_bind = now("CHARSET_FOR_COL_BIND", [val |-> b.col_bind]).val
        /\ y.param_bind = now("CHARSET_FOR_PARAM_BIND", [val |-> b.param_bind]).val
    BY <1>2, <1>5, <1>6
  <1>8. y.unsigned_promotion = (now("UNSIGNED_PROMOTION", up).val \notin Zeros)
    BY <1>2, <1>5, <1>6
  <1>9. y.timestamp_as_is = (now("TIMESTAMP_AS_IS", ts).val \notin Zeros)
    BY <1>2, <1>5, <1>6
  <1>10. (\A j \in 1..(k + 1) : str[j].key # "CUSTOMPRODUCT") => y.product = b.product
    BY <1>2, <1>4, <1>6
  <1>11. SetRest(y, str, k + 1, b)
    BY <1>2, <1>6, <1>7, <1>8, <1>9, <1>10 DEF SetRest, now, up, ts
  <1> QED BY <1>11 DEF part, y

\* The configuration behind the first part, of a data source or a driver.
Behind(str) == IF str = <<>> THEN conn_cfg_release ELSE Set(conn_cfg_release, str[1])
Source(str) == IF str # <<>> /\ str[1].key = "DSN" THEN Odbc_ini[str[1].val] ELSE NoDsn

Flags(b) ==
  /\ DOMAIN b = DOMAIN conn_cfg_release
  /\ b.unsigned_promotion \in BOOLEAN /\ b.timestamp_as_is \in BOOLEAN

LEMMA ReleaseFlags == \A v : Flags([conn_cfg_release EXCEPT !.driver = v]) /\ Flags(conn_cfg_release)
  BY DEF Flags, conn_cfg_release

\* What is read of a data source besides the session.
LEMMA DsnRestIsRead ==
  ASSUME NEW dsn, ~DsnFails(Odbc_ini[dsn])
  PROVE  LET b == _conn_cfg_init_by_dsn(conn_cfg_release, dsn)
             e == Odbc_ini[dsn]
         IN  /\ Flags(b) /\ b.driver = "" /\ b.dsn = dsn
             /\ b.backend = IF e.url = NoUrl THEN "native" ELSE "websocket"
             /\ b.product = conn_get_custprod_by_name(e.customproduct)
  <1> DEFINE e == Odbc_ini[dsn]
             c == conn_cfg_release
             u == DsnUrl(c, dsn, e)
             s == DsnServer(u, e)
             f == DsnFlags(s, e)
             r == DsnRest(f, e)
  <1>1. _conn_cfg_init_by_dsn(c, dsn) = r
    BY DEF _conn_cfg_init_by_dsn, DsnFails
  <1>2. /\ DOMAIN c = {"driver", "dsn", "backend", "url", "uid", "pwd", "ip", "port", "db", "col_bind", "param_bind", "product",
                       "unsigned_promotion", "timestamp_as_is", "conn_mode", "compression"}
        /\ c.driver = ""
    BY DEF conn_cfg_release
  <1> HIDE DEF c, e
  <1>3. DOMAIN u = DOMAIN c /\ u.driver = "" /\ u.dsn = dsn /\ u.backend = IF e.url = NoUrl THEN "native" ELSE "websocket"
    BY <1>2 DEF DsnUrl
  <1> HIDE DEF u
  <1>4. DOMAIN s = DOMAIN c /\ s.driver = "" /\ s.dsn = dsn /\ s.backend = u.backend
    BY <1>2, <1>3 DEF DsnServer
  <1> HIDE DEF s
  <1>5. /\ DOMAIN f = DOMAIN c /\ f.driver = "" /\ f.dsn = dsn /\ f.backend = u.backend
        /\ f.unsigned_promotion \in BOOLEAN /\ f.timestamp_as_is \in BOOLEAN
    <2> DEFINE up == e.unsigned_promotion \in OneDigit
               ts == e.timestamp_as_is \in OneDigit
               mode == e.conn_mode \in OneDigit
    <2>1. up \in BOOLEAN /\ ts \in BOOLEAN
      OBVIOUS
    <2>2. f = [s EXCEPT !.db = e.db, !.unsigned_promotion = up, !.timestamp_as_is = ts, !.conn_mode = mode]
      BY DEF DsnFlags
    <2> HIDE DEF f, up, ts, mode
    <2> QED BY <1>2, <1>4, <2>1, <2>2
  <1> HIDE DEF f
  <1>6. /\ DOMAIN r = DOMAIN c /\ r.driver = "" /\ r.dsn = dsn /\ r.backend = u.backend
        /\ r.unsigned_promotion = f.unsigned_promotion /\ r.timestamp_as_is = f.timestamp_as_is
        /\ r.product = conn_get_custprod_by_name(e.customproduct)
    BY <1>2, <1>5 DEF DsnRest
  <1> HIDE DEF r
  <1> QED BY <1>1, <1>3, <1>5, <1>6 DEF Flags, c, e

\* Nothing of this has been said before the second part.
LEMMA RestSaysNothing ==
  ASSUME NEW b, Flags(b), NEW str, NEW k, \A key \in Keys : \A d : SaidBy(str, k, key, d) = d
  PROVE  SetRest(b, str, k, b)
  <1>1. {"CHARSET_FOR_COL_BIND", "CHARSET_FOR_PARAM_BIND", "UNSIGNED_PROMOTION", "TIMESTAMP_AS_IS"} \subseteq Keys
    BY DEF Keys, Attribute
  <1>2. \A v : [val |-> v].val = v
    OBVIOUS
  <1>3. \A key \in Keys : \A v : SaidBy(str, k, key, [val |-> v]).val = v
    <2> TAKE key \in Keys
    <2> TAKE v
    <2>1. SaidBy(str, k, key, [val |-> v]) = [val |-> v]
      OBVIOUS
    <2> QED BY <1>2, <2>1, Zenon
  <1>4. \A on \in BOOLEAN : on = (Text(on) \notin Zeros)
    BY ConnectAssumption DEF Text, OneDigit
  <1>5. /\ SaidBy(str, k, "CHARSET_FOR_COL_BIND", [val |-> b.col_bind]).val = b.col_bind
        /\ SaidBy(str, k, "CHARSET_FOR_PARAM_BIND", [val |-> b.param_bind]).val = b.param_bind
        /\ SaidBy(str, k, "UNSIGNED_PROMOTION", [val |-> Text(b.unsigned_promotion)]).val = Text(b.unsigned_promotion)
        /\ SaidBy(str, k, "TIMESTAMP_AS_IS", [val |-> Text(b.timestamp_as_is)]).val = Text(b.timestamp_as_is)
    BY <1>1, <1>3
  <1> QED BY <1>4, <1>5 DEF SetRest, Flags

\* What is expected of a connection string.
Known(str) ==
  /\ str \in Seq({str[k] : k \in DOMAIN str})
  /\ \A k \in DOMAIN str : /\ str[k].key = "DSN" => str[k].val \in DOMAIN Odbc_ini
                           /\ str[k].kind \in {"digits", "value"} => str[k].val # ""

LEMMA CallsAreKnown ==
  ASSUME NEW a \in First \cup Again, a.fn = "SQLDriverConnect"
  PROVE  Known(a.str) /\ "none" \notin DOMAIN Odbc_ini
  <1>1. a.fn # "SQLConnect"
    OBVIOUS
  <1>2. /\ "none" \notin DOMAIN Odbc_ini /\ a.str \in Seq({a.str[k] : k \in DOMAIN a.str})
        /\ \A k \in DOMAIN a.str : /\ a.str[k].key = "DSN" => a.str[k].val \in DOMAIN Odbc_ini
                                   /\ a.str[k].kind \in {"digits", "value"} => a.str[k].kind = Kind(a.str[k].val)
    BY <1>1, ConnectAssumption, Zenon
  <1>3. Kind("") = "none"
    BY DEF Kind
  <1>4. \A k \in DOMAIN a.str : a.str[k].kind \in {"digits", "value"} => a.str[k].val # ""
    BY <1>2, <1>3
  <1> QED BY <1>2, <1>4 DEF Known

LEMMA CallsSource ==
  ASSUME NEW a \in First \cup Again, a.fn = "SQLDriverConnect"
  PROVE  InDsn(a) = Source(a.str)
  <1>1. Known(a.str) /\ "none" \notin DOMAIN Odbc_ini /\ a.fn # "SQLConnect"
    BY CallsAreKnown
  <1>2. CASE a.str # <<>> /\ a.str[1].key = "DSN"
    <2>1. 1 \in DOMAIN a.str
      <3>1. Len(a.str) \in Nat \ {0} /\ DOMAIN a.str = 1..Len(a.str)
        BY <1>1, <1>2, LenProperties, EmptySeq DEF Known
      <3> QED BY <3>1
    <2>2. a.str[1].val # "none"
      BY <1>1, <1>2, <2>1 DEF Known
    <2> QED BY <1>1, <1>2, <2>2 DEF InDsn, DsnOf, Source
  <1>3. CASE ~(a.str # <<>> /\ a.str[1].key = "DSN")
    BY <1>1, <1>3 DEF InDsn, DsnOf, Source
  <1> QED BY <1>2, <1>3

\* c is what k parts of str say.
SetUpTo(c, str, k) == SetBy(c, str, k, Source(str)) /\ SetRest(c, str, k, Behind(str))

LEMMA BehindFirst ==
  ASSUME NEW str, str # <<>>, str[1].key \in {"DSN", "DRIVER"},
         str[1].key = "DSN" => ~DsnFails(Odbc_ini[str[1].val])
  PROVE  SetUpTo(Set(conn_cfg_release, str[1]), str, 1)
  <1> DEFINE b == Set(conn_cfg_release, str[1])
  <1>1. str[1].key \notin Keys
    BY DEF Keys, Odbc_attr, Url_attr, Attribute
  <1>2. \A key \in Keys : \A d : SaidBy(str, 1, key, d) = d
    <2> TAKE key \in Keys
    <2> TAKE d
    <2>1. SaidBy(str, 0 + 1, key, d) = IF str[0 + 1].key = key THEN str[0 + 1] ELSE SaidBy(str, 0, key, d)
      BY LastSays
    <2> QED BY <1>1, <2>1, NothingSaid
  <1>3. Read(b, Source(str)) /\ Flags(b)
    <2>1. CASE str[1].key = "DSN"
      <3>1. b = _conn_cfg_init_by_dsn(conn_cfg_release, str[1].val)
        BY <2>1 DEF Set
      <3> QED BY <2>1, <3>1, DsnIsRead, DsnRestIsRead DEF Source
    <2>2. CASE str[1].key = "DRIVER"
      <3>1. b = [conn_cfg_release EXCEPT !.driver = str[1].val]
        BY <2>2 DEF Set
      <3> QED BY <2>2, <3>1, NothingIsRead, ReleaseFlags DEF Source
    <2> QED BY <2>1, <2>2
  <1> HIDE DEF b
  <1>4. SetBy(b, str, 1, Source(str)) /\ SetRest(b, str, 1, b)
    BY <1>2, <1>3, SaysNothing, RestSaysNothing
  <1> QED BY <1>4 DEF SetUpTo, Behind, b

LEMMA PartsSet ==
  ASSUME NEW str, Known(str), ~conn_parser_fails(str), NEW f, Parsing(f, str)
  PROVE  SetUpTo(f[Len(str)], str, Len(str))
  <1> DEFINE n == Len(str)
             S == {k \in Nat : 1 <= k /\ k <= n => SetUpTo(f[k], str, k)}
  <1>1. /\ str \in Seq({str[k] : k \in DOMAIN str})
        /\ \A k \in DOMAIN str : /\ str[k].key = "DSN" => str[k].val \in DOMAIN Odbc_ini
                                 /\ str[k].kind \in {"digits", "value"} => str[k].val # ""
    BY DEF Known
  <1>2. n \in Nat /\ DOMAIN str = 1..n /\ (str # <<>> <=> n # 0)
    BY <1>1, LenProperties, EmptySeq
  <1>3. f[0] = conn_cfg_release /\ \A k \in Nat : k + 1 <= n => f[k + 1] = Set(f[k], str[k + 1])
    BY DEF Parsing
  <1>4. \A k \in 1..n : Follows(str, k) /\ Written(str[k]) /\ (str[k].key = "DSN" => ~DsnFails(Odbc_ini[str[k].val]))
    BY <1>2 DEF conn_parser_fails, Bad
  <1>5. CASE n = 0
    <2>1. str = <<>>
      BY <1>2, <1>5
    <2>2. Source(str) = NoDsn /\ Behind(str) = conn_cfg_release
      BY <2>1 DEF Source, Behind
    <2>3. SetBy(conn_cfg_release, str, 0, NoDsn)
      BY NothingIsRead, NothingSaid, SaysNothing
    <2>4. SetRest(conn_cfg_release, str, 0, conn_cfg_release)
      BY ReleaseFlags, NothingSaid, RestSaysNothing
    <2> QED BY <1>3, <1>5, <2>2, <2>3, <2>4 DEF SetUpTo
  <1>6. CASE n # 0
    <2>1. 1 \in 1..n /\ str # <<>>
      BY <1>2, <1>6
    <2>2. str[1].key \in {"DSN", "DRIVER"} /\ (str[1].key = "DSN" => ~DsnFails(Odbc_ini[str[1].val]))
      BY <1>4, <2>1 DEF Follows
    <2>4. 0 \in S
      OBVIOUS
    <2>5. ASSUME NEW k \in S PROVE k + 1 \in S
      <3>1. k \in Nat
        OBVIOUS
      <3> SUFFICES ASSUME k + 1 <= n PROVE SetUpTo(f[k + 1], str, k + 1)
        BY <3>1
      <3>2. CASE k = 0
        <4>1. f[1] = Set(conn_cfg_release, str[1])
          BY <1>3, <3>2
        <4> QED BY <2>1, <2>2, <3>2, <4>1, BehindFirst
      <3>3. CASE k # 0
        <4>1. SetUpTo(f[k], str, k)
          BY <1>2, <3>1, <3>3
        <4>2. k + 1 \in 1..n /\ k + 1 # 1
          BY <1>2, <3>1, <3>3
        <4>3. str[k + 1].key \in Keys
          <5>1. Follows(str, k + 1)
            BY <1>4, <4>2
          <5> QED BY <3>1, <4>2, <5>1 DEF Follows, Keys
        <4>4. Written(str[k + 1])
          BY <1>4, <4>2
        <4>6. str[k + 1].key = "COMPRESSION" => str[k + 1].val \in {"0", "1"}
          BY <4>4 DEF Written
        <4>7. f[k + 1] = Set(f[k], str[k + 1])
          BY <1>3, <3>1
        <4> QED BY <3>1, <4>1, <4>3, <4>6, <4>7, SetsAPart, RestSetsAPart DEF SetUpTo
      <3> QED BY <3>2, <3>3
    <2>6. S \subseteq Nat
      OBVIOUS
    <2> HIDE DEF S
    <2>7. n \in S
      BY <1>2, <2>4, <2>5, <2>6, Induct
    <2> QED BY <1>2, <1>6, <2>7 DEF S
  <1> QED BY <1>5, <1>6

\* A string that does not fail is read to its end.
LEMMA ParsesWhole ==
  ASSUME NEW B, NEW str \in Seq(B), ~conn_parser_fails(str)
  PROVE  conn_parser_parse(str) = [field \in DOMAIN conn_cfg_release |-> FoldLeft(Set, conn_cfg_release, str)[field]]
  <1> DEFINE done(k) == \A j \in 1..k : Follows(str, j) /\ Written(str[j]) /\ (j < k => ~Bad(str, j))
             last == CHOOSE k \in 0..Len(str) : done(k) /\ \A j \in 0..Len(str) : done(j) => j <= k
             c == FoldLeft(Set, conn_cfg_release, SubSeq(str, 1, last))
  <1>1. Len(str) \in Nat /\ DOMAIN str = 1..Len(str)
    BY LenProperties
  <1>2. \A j \in 1..Len(str) : ~Bad(str, j) /\ Follows(str, j) /\ Written(str[j])
    BY <1>1 DEF conn_parser_fails, Bad
  <1>3. done(Len(str))
    BY <1>2
  <1>4. last = Len(str)
    <2> HIDE DEF done
    <2>1. Len(str) \in 0..Len(str) /\ \A j \in 0..Len(str) : done(j) => j <= Len(str)
      BY <1>1
    <2>2. ASSUME NEW k \in 0..Len(str), \A j \in 0..Len(str) : done(j) => j <= k
          PROVE  k = Len(str)
      <3>1. Len(str) <= k
        BY <1>3, <2>1, <2>2
      <3> DEFINE m == Len(str)
      <3>2. m \in Nat /\ k \in 0..m /\ m <= k
        BY <1>1, <3>1
      <3> HIDE DEF m
      <3>3. k = m
        BY <3>2
      <3> QED BY <3>3 DEF m
    <2> QED BY <1>3, <2>1, <2>2
  <1>5. conn_parser_parse(str) = [field \in DOMAIN conn_cfg_release |-> c[field]]
    BY DEF conn_parser_parse
  <1> HIDE DEF last
  <1>6. SubSeq(str, 1, last) = str
    BY <1>1, <1>4
  <1> QED BY <1>5, <1>6

\* A string that parses is obeyed: the last part that names a key counts, and what no part
\* names is as in the data source.
THEOREM StringIsObeyed ==
  ASSUME NEW str, Known(str), ~conn_parser_fails(str)
  PROVE  SetUpTo(conn_parser_parse(str), str, Len(str))
  <1>1. str \in Seq({str[k] : k \in DOMAIN str})
    BY DEF Known
  <1>2. PICK f : Parsing(f, str) /\ FoldLeft(Set, conn_cfg_release, str) = f[Len(str)]
    BY <1>1, FoldParses
  <1> DEFINE c == f[Len(str)]
  <1>3. SetUpTo(c, str, Len(str))
    BY <1>2, PartsSet
  <1>4. conn_parser_parse(str) = [field \in DOMAIN conn_cfg_release |-> c[field]]
    BY <1>1, <1>2, ParsesWhole
  <1> HIDE DEF c
  <1>5. {"uid", "pwd", "db", "ip", "port", "url", "conn_mode", "compression", "driver", "dsn", "backend", "product",
         "col_bind", "param_bind", "unsigned_promotion", "timestamp_as_is"} \subseteq DOMAIN conn_cfg_release
    BY DEF conn_cfg_release
  <1> DEFINE r == [field \in DOMAIN conn_cfg_release |-> c[field]]
  <1>6. /\ DOMAIN r = DOMAIN conn_cfg_release
        /\ r.uid = c.uid /\ r.pwd = c.pwd /\ r.db = c.db /\ r.ip = c.ip /\ r.port = c.port /\ r.url = c.url
        /\ r.conn_mode = c.conn_mode /\ r.compression = c.compression
        /\ r.driver = c.driver /\ r.dsn = c.dsn /\ r.backend = c.backend /\ r.product = c.product
        /\ r.col_bind = c.col_bind /\ r.param_bind = c.param_bind
        /\ r.unsigned_promotion = c.unsigned_promotion /\ r.timestamp_as_is = c.timestamp_as_is
    BY <1>5
  <1> HIDE DEF r
  <1>7. SetBy(r, str, Len(str), Source(str))
    BY <1>3, <1>6 DEF SetUpTo, SetBy, Cfg
  <1>8. SetRest(r, str, Len(str), Behind(str))
    BY <1>3, <1>6 DEF SetUpTo, SetRest
  <1> QED BY <1>4, <1>7, <1>8 DEF SetUpTo, r

-----------------------------------------------------------------------------
(* The configuration a call leaves is the one it asks for.                 *)

Parsed(a) ==
  IF a.fn = "SQLConnect" THEN [_conn_cfg_init_by_dsn(conn_cfg_release, a.dsn) EXCEPT !.uid = a.uid, !.pwd = a.pwd]
  ELSE conn_parser_parse(a.str)

Uid(a) == IF a.fn = "SQLConnect" THEN a.uid ELSE Said(a, "UID", [val |-> ""]).val
Pwd(a) == IF a.fn = "SQLConnect" THEN a.pwd ELSE Said(a, "PWD", [val |-> ""]).val

\* c is what a says, over what its data source does.
Obeys(c, a) ==
  LET e == InDsn(a)
  IN  Cfg(c, Uid(a), Pwd(a), Said(a, "DB", [val |-> e.db]).val,
          Said(a, "SERVER", [val |-> e.server.host, port |-> e.server.port]), Said(a, "URL", [val |-> e.url]).val,
          Said(a, "CONN_MODE", [val |-> Counted(e.conn_mode)]).val, Said(a, "COMPRESSION", [val |-> e.compression]).val)

LEMMA CallIsObeyed ==
  ASSUME NEW a \in First \cup Again, Given(a)
  PROVE  Obeys(Parsed(a), a)
  <1>1. CASE a.fn = "SQLConnect"
    <2> DEFINE e == Odbc_ini[a.dsn]
               c == _conn_cfg_init_by_dsn(conn_cfg_release, a.dsn)
               r == [c EXCEPT !.uid = a.uid, !.pwd = a.pwd]
    <2>1. "none" \notin DOMAIN Odbc_ini /\ a.dsn \in DOMAIN Odbc_ini
      BY <1>1, ConnectAssumption
    <2>2. InDsn(a) = e
      BY <1>1, <2>1 DEF InDsn, DsnOf
    <2>3. \A key, d : Said(a, key, d) = d
      BY <1>1 DEF Said
    <2>4. ~DsnFails(e)
      BY <1>1 DEF Given
    <2>5. Read(c, e)
      BY <2>4, DsnIsRead
    <2> HIDE DEF c
    <2>6. {"uid", "pwd", "db", "ip", "port", "url", "conn_mode", "compression"} \subseteq DOMAIN conn_cfg_release
      BY DEF conn_cfg_release
    <2>7. /\ DOMAIN r = DOMAIN conn_cfg_release /\ r.uid = a.uid /\ r.pwd = a.pwd
          /\ r.db = c.db /\ r.ip = c.ip /\ r.port = c.port /\ r.url = c.url
          /\ r.conn_mode = c.conn_mode /\ r.compression = c.compression
      BY <2>5, <2>6 DEF Read, Cfg
    <2>8. Parsed(a) = r
      BY <1>1 DEF Parsed, c
    <2> HIDE DEF r, e
    <2>9. Cfg(r, a.uid, a.pwd, e.db, [val |-> e.server.host, port |-> e.server.port], e.url, Counted(e.conn_mode),
               e.compression)
      BY <2>5, <2>7 DEF Read, Cfg
    <2>10. Uid(a) = a.uid /\ Pwd(a) = a.pwd
      BY <1>1 DEF Uid, Pwd
    <2>11. \A v : [val |-> v].val = v
      OBVIOUS
    <2>12. /\ Said(a, "DB", [val |-> e.db]).val = e.db
           /\ Said(a, "URL", [val |-> e.url]).val = e.url
           /\ Said(a, "CONN_MODE", [val |-> Counted(e.conn_mode)]).val = Counted(e.conn_mode)
           /\ Said(a, "COMPRESSION", [val |-> e.compression]).val = e.compression
           /\ Said(a, "SERVER", [val |-> e.server.host, port |-> e.server.port])
                = [val |-> e.server.host, port |-> e.server.port]
      BY <2>3, <2>11, Zenon
    <2> QED BY <2>2, <2>8, <2>9, <2>10, <2>12, Zenon DEF Obeys
  <1>2. CASE a.fn = "SQLDriverConnect"
    <2>1. a.fn # "SQLConnect" /\ ~conn_parser_fails(a.str)
      BY <1>2 DEF Given
    <2>2. SetBy(conn_parser_parse(a.str), a.str, Len(a.str), InDsn(a))
      BY <1>2, <2>1, CallsAreKnown, CallsSource, StringIsObeyed DEF SetUpTo
    <2>3. DOMAIN a.str = 1..Len(a.str)
      BY <1>2, CallsAreKnown, LenProperties DEF Known
    <2>4. \A key, d : Said(a, key, d) = SaidBy(a.str, Len(a.str), key, d)
      <3> TAKE key, d
      <3> DEFINE pick(ks) == IF ks = {} THEN d ELSE a.str[CHOOSE k \in ks : \A j \in ks : j <= k]
      <3>1. Said(a, key, d) = pick({k \in DOMAIN a.str : a.str[k].key = key})
        BY <2>1 DEF Said
      <3>2. SaidBy(a.str, Len(a.str), key, d) = pick({k \in 1..Len(a.str) : a.str[k].key = key})
        BY DEF SaidBy
      <3> HIDE DEF pick
      <3> QED BY <2>3, <3>1, <3>2
    <2>5. Parsed(a) = conn_parser_parse(a.str)
      BY <2>1 DEF Parsed
    <2>6. /\ Uid(a) = SaidBy(a.str, Len(a.str), "UID", [val |-> ""]).val
          /\ Pwd(a) = SaidBy(a.str, Len(a.str), "PWD", [val |-> ""]).val
      BY <2>1, <2>4, Zenon DEF Uid, Pwd
    <2> QED BY <2>2, <2>4, <2>5, <2>6, Zenon DEF Obeys, SetBy
  <1> QED BY <1>1, <1>2 DEF Given

\* The session a configuration makes.
Session(c) ==
  [host |-> c.ip, port |-> c.port, user |-> c.uid, pass |-> c.pwd, db |-> c.db,
   compression |-> IF c.url = NoUrl THEN "unset" ELSE c.compression, bi |-> c.conn_mode]

\* Asked, of what is said.
AskedOf(uid, pwd, db, server, url, mode, zip) ==
  LET else(x, f) == IF x = "" /\ url # NoUrl THEN url[f] ELSE x
  IN  [host |-> else(server.val, "host"), user |-> else(uid, "user"), pass |-> else(pwd, "pass"),
       port |-> IF server.port = 0 /\ url # NoUrl THEN url.port ELSE server.port,
       db |-> else(db, "path"), bi |-> mode \notin Zeros,
       compression |-> IF url = NoUrl THEN "unset" ELSE Compressed(zip)]

LEMMA AskedIsOf ==
  ASSUME NEW a
  PROVE  LET e == InDsn(a)
         IN  /\ UrlOf(a) = Said(a, "URL", [val |-> e.url]).val
             /\ Asked(a) = AskedOf(Uid(a), Pwd(a), Said(a, "DB", [val |-> e.db]).val,
                                   Said(a, "SERVER", [val |-> e.server.host, port |-> e.server.port]), UrlOf(a),
                                   Said(a, "CONN_MODE", [val |-> Counted(e.conn_mode)]).val,
                                   Said(a, "COMPRESSION", [val |-> e.compression]).val)
  <1>1. CASE DsnOf(a) = "none"
    BY <1>1 DEF InDsn, NoDsn, UrlOf, Asked, AskedOf, Uid, Pwd, Compressed
  <1>2. CASE DsnOf(a) # "none"
    BY <1>2 DEF InDsn, NoDsn, UrlOf, Asked, AskedOf, Uid, Pwd, Compressed
  <1> QED BY <1>1, <1>2

LEMMA FilledIsAsked ==
  ASSUME NEW c, NEW uid, NEW pwd, NEW db, NEW server, NEW url, NEW mode, NEW zip,
         Cfg(c, uid, pwd, db, server, url, mode, zip)
  PROVE  /\ Session(_conn_fill_cfg_from_url(c)) = AskedOf(uid, pwd, db, server, url, mode, zip)
         /\ _conn_fill_cfg_from_url(c).url = url
         /\ DOMAIN _conn_fill_cfg_from_url(c) = DOMAIN conn_cfg_release
  <1>1. /\ {"uid", "pwd", "db", "ip", "port", "url", "conn_mode", "compression"} \subseteq DOMAIN c
        /\ DOMAIN c = DOMAIN conn_cfg_release
    BY DEF conn_cfg_release, Cfg
  <1>2. CASE url = NoUrl
    BY <1>1, <1>2 DEF _conn_fill_cfg_from_url, Session, AskedOf, Cfg
  <1>3. CASE url # NoUrl
    <2> DEFINE or(x, y) == IF x = "" THEN y ELSE x
               f == [c EXCEPT !.ip = or(@, url.host), !.port = IF @ = 0 THEN url.port ELSE @,
                              !.uid = or(@, url.user), !.pwd = or(@, url.pass), !.db = or(@, url.path)]
    <2>1. _conn_fill_cfg_from_url(c) = f
      BY <1>3 DEF _conn_fill_cfg_from_url, Cfg
    <2>2. /\ DOMAIN f = DOMAIN conn_cfg_release /\ f.url = url
          /\ f.ip = or(server.val, url.host) /\ f.port = (IF server.port = 0 THEN url.port ELSE server.port)
          /\ f.uid = or(uid, url.user) /\ f.pwd = or(pwd, url.pass) /\ f.db = or(db, url.path)
          /\ f.conn_mode = c.conn_mode /\ f.compression = c.compression
      BY <1>1 DEF Cfg
    <2> HIDE DEF f
    <2>3. Session(f) = AskedOf(uid, pwd, db, server, url, mode, zip)
      BY <1>3, <2>2 DEF Session, AskedOf, Cfg
    <2> QED BY <2>1, <2>2, <2>3
  <1> QED BY <1>2, <1>3

LEMMA ParsedIsAsked ==
  ASSUME NEW a \in First \cup Again, Given(a)
  PROVE  /\ Parsed(a).url = UrlOf(a) /\ DOMAIN Parsed(a) = DOMAIN conn_cfg_release
         /\ Session(_conn_fill_cfg_from_url(Parsed(a))) = Asked(a)
         /\ _conn_fill_cfg_from_url(Parsed(a)).url = UrlOf(a)
         /\ DOMAIN _conn_fill_cfg_from_url(Parsed(a)) = DOMAIN conn_cfg_release
  <1> DEFINE e == InDsn(a)
             db == Said(a, "DB", [val |-> e.db]).val
             server == Said(a, "SERVER", [val |-> e.server.host, port |-> e.server.port])
             url == Said(a, "URL", [val |-> e.url]).val
             mode == Said(a, "CONN_MODE", [val |-> Counted(e.conn_mode)]).val
             zip == Said(a, "COMPRESSION", [val |-> e.compression]).val
  <1>1. Cfg(Parsed(a), Uid(a), Pwd(a), db, server, url, mode, zip)
    BY CallIsObeyed DEF Obeys
  <1>2. UrlOf(a) = url /\ Asked(a) = AskedOf(Uid(a), Pwd(a), db, server, UrlOf(a), mode, zip)
    BY AskedIsOf
  <1> HIDE DEF db, server, url, mode, zip
  <1>3. Parsed(a).url = url /\ DOMAIN Parsed(a) = DOMAIN conn_cfg_release
    BY <1>1 DEF Cfg
  <1> QED BY <1>1, <1>2, <1>3, FilledIsAsked

-----------------------------------------------------------------------------
(* The handle on its way to the session asked for.                         *)

Filled(a) == _conn_fill_cfg_from_url(Parsed(a))

AskedInv ==
  /\ pc # "idle" \/ taos # NoSession => ask \in First \cup Again /\ Given(ask)
  /\ pc \in {"driver", "url"} => cfg = Parsed(ask)
  /\ pc \in {"connect"} \cup After \/ Connected => cfg = Filled(ask)
  /\ pc = "mode" => taos = taos_connect_with(cfg)
  /\ pc = "select" => taos = [taos_connect_with(cfg) EXCEPT !.bi = cfg.conn_mode]
  /\ pc \in {"configs", "iconvs", "timezone"} \/ Connected => taos = Session(cfg)

LEMMA InitAsked == Init => AskedInv
  BY DEF Init, AskedInv, After, Connected

\* A call that is over, and has no session, asks for nothing.
LEMMA OverIsAsked == pc' = "idle" /\ taos' = NoSession => AskedInv'
  BY DEF AskedInv, After, Connected

LEMMA CallAsked ==
  ASSUME NEW a \in First \cup Again, SQLDriverConnect(a) \/ SQLConnect(a)
  PROVE  AskedInv'
  <1>1. ASSUME NEW parsed, NEW fails, Call(a, parsed, fails), ~fails => Given(a) /\ parsed = Parsed(a)
        PROVE  AskedInv'
    <2>1. CASE fails
      BY <1>1, <2>1, OverIsAsked DEF Call, Return
    <2>2. CASE ~fails
      BY <1>1, <2>2 DEF Call, AskedInv, After, Connected
    <2> QED BY <2>1, <2>2
  <1>2. CASE SQLDriverConnect(a)
    <2>1. Call(a, conn_parser_parse(a.str), conn_parser_fails(a.str))
      BY <1>2 DEF SQLDriverConnect
    <2>2. ~conn_parser_fails(a.str) => Given(a) /\ conn_parser_parse(a.str) = Parsed(a)
      BY <1>2 DEF SQLDriverConnect, Given, Parsed
    <2> QED BY <1>1, <2>1, <2>2
  <1>3. CASE SQLConnect(a)
    <2> DEFINE c == _conn_cfg_init_by_dsn(conn_cfg_release, a.dsn)
    <2>1. \/ Call(a, c, TRUE)
          \/ ~DsnFails(Odbc_ini[a.dsn]) /\ Call(a, [c EXCEPT !.uid = a.uid, !.pwd = a.pwd], FALSE)
      BY <1>3 DEF SQLConnect
    <2>2. ~DsnFails(Odbc_ini[a.dsn]) => Given(a) /\ [c EXCEPT !.uid = a.uid, !.pwd = a.pwd] = Parsed(a)
      BY <1>3 DEF SQLConnect, Given, Parsed
    <2> HIDE DEF c
    <2> QED BY <1>1, <2>1, <2>2
  <1> QED BY <1>2, <1>3

\* From a fresh session to the one asked for: the mode, then a system database.
LEMMA FromFresh ==
  ASSUME NEW c, NEW s
  PROVE  /\ s = [taos_connect_with(c) EXCEPT !.bi = c.conn_mode] =>
              (IF c.db \in SystemDbs THEN [s EXCEPT !.db = c.db] ELSE s) = Session(c)
  BY DEF taos_connect_with, Session

LEMMA DriverStepAsked ==
  ASSUME IInv, AskedInv, Driver
  PROVE  AskedInv'
  <1>1. CASE Fails /\ pc \in Before
    <2>1. pc' = "idle" /\ taos' = NoSession
      BY <1>1 DEF Fails, Return, conn, IInv, SessionInv, Before, After
    <2> QED BY <2>1, OverIsAsked
  <1>2. CASE GiveUp
    BY <1>2, OverIsAsked DEF GiveUp, Return, conn_disconnect
  <1> USE DEF AskedInv, After, Connected
  <1>3. CASE InitDriver
    BY <1>1, <1>3 DEF InitDriver, Goto, conn, Before
  <1>4. CASE FillFromUrl
    BY <1>1, <1>4 DEF FillFromUrl, Goto, Before, Filled
  <1>5. CASE TaosConnect
    BY <1>1, <1>5 DEF TaosConnect, Goto, Before
  <1>6. CASE SetConnMode
    BY <1>2, <1>6 DEF SetConnMode, Proceed, Goto
  <1>7. CASE SelectDb
    <2>1. CASE cfg.db \in SystemDbs /\ GiveUp
      BY <1>2, <2>1
    <2>2. CASE /\ taos' = IF cfg.db \in SystemDbs THEN [taos EXCEPT !.db = cfg.db] ELSE taos
               /\ Proceed("configs")
      <3>1. pc = "select" /\ pc' = "configs" /\ UNCHANGED <<cfg, ask>>
        BY <1>7, <2>2 DEF SelectDb, Proceed, Goto
      <3>2. taos' = Session(cfg)
        BY <2>2, <3>1, FromFresh
      <3> QED BY <3>1, <3>2
    <2> QED BY <1>7, <2>1, <2>2 DEF SelectDb
  <1>8. CASE GetConfigs
    <2>1. CASE Return("error") /\ conn_disconnect
      BY <2>1, OverIsAsked DEF Return, conn_disconnect
    <2>2. CASE Proceed("iconvs") /\ UNCHANGED taos
      BY <1>8, <2>2 DEF GetConfigs, Proceed, Goto
    <2> QED BY <1>8, <2>1, <2>2 DEF GetConfigs
  <1>9. CASE SetupIconvs
    BY <1>2, <1>9 DEF SetupIconvs, Proceed, Goto
  <1>10. CASE GetTimezone
    BY <1>2, <1>10 DEF GetTimezone
  <1> QED BY <1>3, <1>4, <1>5, <1>6, <1>7, <1>8, <1>9, <1>10 DEF Driver

LEMMA NoCallAsked ==
  ASSUME AskedInv, SQLDisconnect \/ _conn_check_alive \/ Lose \/ OtherHandle \/ UNCHANGED vars
  PROVE  AskedInv'
  <1>1. CASE SQLDisconnect
    BY <1>1, OverIsAsked DEF SQLDisconnect, Return, conn_disconnect
  <1>2. CASE UNCHANGED <<pc, ask, cfg, taos>>
    BY <1>2 DEF AskedInv, Connected
  <1> QED BY <1>1, <1>2 DEF _conn_check_alive, Lose, OtherHandle, vars, conn

LEMMA AskedStays == IInv /\ AskedInv /\ [Next]_vars => AskedInv'
  <1>1. \A a : a \in (IF fresh THEN First ELSE Again) => a \in First \cup Again
    OBVIOUS
  <1> QED BY <1>1, CallAsked, DriverStepAsked, NoCallAsked DEF Next

\* However the parts of the string, the data source and the URL overlap, whichever step of
\* an earlier connect failed and whatever the handle was connected to before, the session
\* is the one asked for, by the driver its URL needs.
THEOREM SessionGiven == Spec => []SessionIsAsked
  <1>1. IInv /\ AskedInv => SessionIsAsked
    <2> SUFFICES ASSUME IInv, AskedInv, Connected PROVE /\ taos = Asked(ask)
                                                        /\ driver_type = IF UrlOf(ask) = NoUrl THEN "native" ELSE "websocket"
      BY DEF SessionIsAsked
    <2>1. ask \in First \cup Again /\ Given(ask) /\ cfg = Filled(ask) /\ taos = Session(cfg)
      BY DEF AskedInv, Connected
    <2>2. Session(Filled(ask)) = Asked(ask) /\ Filled(ask).url = UrlOf(ask)
      BY <2>1, ParsedIsAsked DEF Filled
    <2>3. driver_type = IF cfg.url = NoUrl THEN "native" ELSE "websocket"
      BY DEF IInv, DriverInv, Connected
    <2> QED BY <2>1, <2>2, <2>3
  <1> QED BY <1>1, InitAsked, AskedStays, Invariance, PTL DEF Spec

-----------------------------------------------------------------------------
(* The parts of the string handed back.                                    *)

\* p lists the parts ps and no other.
Lists(p, ps) == p \in Seq(ps) /\ \A x \in ps : \E j \in 1..Len(p) : p[j] = x

LEMMA ListsOptional ==
  ASSUME NEW written \in BOOLEAN, NEW x
  PROVE  Lists(Optional(written, x), IF written THEN {x} ELSE {})
  <1>1. CASE written
    <2>1. Optional(written, x) = <<x>> /\ (IF written THEN {x} ELSE {}) = {x}
      BY <1>1 DEF Optional
    <2>2. <<x>> \in Seq({x}) /\ Len(<<x>>) = 1 /\ <<x>>[1] = x /\ 1 \in 1..1
      OBVIOUS
    <2> QED BY <2>1, <2>2 DEF Lists
  <1>2. CASE ~written
    <2>1. Optional(written, x) = <<>> /\ (IF written THEN {x} ELSE {}) = {}
      BY <1>2 DEF Optional
    <2> QED BY <2>1, EmptySeq DEF Lists
  <1> QED BY <1>1, <1>2

LEMMA ListsConcat ==
  ASSUME NEW ps, NEW qs, NEW p, NEW q, Lists(p, ps), Lists(q, qs)
  PROVE  Lists(p \o q, ps \cup qs)
  <1> DEFINE s == ps \cup qs
  <1>1. p \in Seq(s) /\ q \in Seq(s)
    <2>1. p \in Seq(ps) /\ q \in Seq(qs)
      BY DEF Lists
    <2> QED BY <2>1
  <1>2. /\ p \o q \in Seq(s) /\ Len(p) \in Nat /\ Len(q) \in Nat /\ Len(p \o q) = Len(p) + Len(q)
        /\ \A j \in 1..Len(p) : (p \o q)[j] = p[j]
        /\ \A j \in 1..Len(q) : (p \o q)[Len(p) + j] = q[j]
    BY <1>1
  <1>3. ASSUME NEW x \in s PROVE \E j \in 1..Len(p \o q) : (p \o q)[j] = x
    <2>1. CASE x \in ps
      <3>1. PICK j \in 1..Len(p) : p[j] = x
        BY <2>1 DEF Lists
      <3>2. j \in 1..Len(p \o q)
        BY <1>2, <3>1
      <3> QED BY <1>2, <3>1, <3>2
    <2>2. CASE x \in qs
      <3>1. PICK j \in 1..Len(q) : q[j] = x
        BY <2>2 DEF Lists
      <3>2. Len(p) + j \in 1..Len(p \o q)
        BY <1>2, <3>1
      <3> QED BY <1>2, <3>1, <3>2
    <2> QED BY <2>1, <2>2
  <1> QED BY <1>2, <1>3 DEF Lists

\* What one of the parts that are listed says, if its key is its own.
LEMMA ListSays ==
  ASSUME NEW ps, NEW p, Lists(p, ps), NEW key, NEW d
  PROVE  /\ (\A x \in ps : x.key # key) => SaidBy(p, Len(p), key, d) = d
         /\ \A x \in ps : x.key = key /\ (\A y \in ps : y.key = key => y = x) => SaidBy(p, Len(p), key, d) = x
  <1> DEFINE ks == {j \in 1..Len(p) : p[j].key = key}
             best == CHOOSE j \in ks : \A i \in ks : i <= j
  <1>1. Len(p) \in Nat /\ \A j \in 1..Len(p) : p[j] \in ps
    BY LenProperties DEF Lists
  <1>2. SaidBy(p, Len(p), key, d) = IF ks = {} THEN d ELSE p[best]
    BY DEF SaidBy
  <1>3. ASSUME \A x \in ps : x.key # key PROVE ks = {}
    BY <1>1, <1>3
  <1>4. ASSUME NEW x \in ps, x.key = key, \A y \in ps : y.key = key => y = x
        PROVE  ks # {} /\ p[best] = x
    <2>1. PICK j \in 1..Len(p) : p[j] = x
      BY DEF Lists
    <2>2. j \in ks /\ \A i \in ks : i \in 0..Len(p)
      BY <1>1, <1>4, <2>1
    <2> HIDE DEF ks
    <2>3. \E m \in ks : \A i \in ks : i <= m
      <3>1. ks \in SUBSET (0..Len(p)) /\ ks # {}
        BY <2>2
      <3> QED BY <1>1, <3>1, Greatest
    <2>4. best \in ks
      BY <2>3
    <2>5. best \in 1..Len(p) /\ p[best].key = key
      BY <2>4 DEF ks
    <2> QED BY <1>1, <1>4, <2>2, <2>5
  <1> HIDE DEF ks, best
  <1> QED BY <1>2, <1>3, <1>4

\* Whatever a string says of a key, one of its parts says.
LEMMA SomePartSays ==
  ASSUME NEW str, NEW n \in Nat, NEW key, NEW d
  PROVE  SaidBy(str, n, key, d) = d \/ \E j \in 1..n : str[j].key = key /\ SaidBy(str, n, key, d) = str[j]
  <1> DEFINE ks == {j \in 1..n : str[j].key = key}
             best == CHOOSE j \in ks : \A i \in ks : i <= j
  <1>1. SaidBy(str, n, key, d) = IF ks = {} THEN d ELSE str[best]
    BY DEF SaidBy
  <1>2. ASSUME ks # {} PROVE best \in 1..n /\ str[best].key = key
    <2>1. ks \in SUBSET (0..n)
      OBVIOUS
    <2>2. best \in ks
      <3> HIDE DEF ks
      <3>1. \E m \in ks : \A i \in ks : i <= m
        BY <1>2, <2>1, Greatest
      <3> QED BY <3>1
    <2> QED BY <2>2
  <1> HIDE DEF ks, best
  <1> QED BY <1>1, <1>2

\* The order the parser wants.
Tail_keys == Odbc_attr \cup Attribute
Ordered(p) ==
  /\ Len(p) \in Nat /\ Len(p) >= 2
  /\ p[1].key \in {"DSN", "DRIVER"} /\ p[2].key \in {"URL"} \cup Odbc_attr
  /\ \A j \in 3..Len(p) : p[j].key \in Tail_keys

LEMMA OrderedConcat ==
  ASSUME NEW ps, NEW p \in Seq(ps), NEW qs, NEW q \in Seq(qs), Ordered(p), \A x \in qs : x.key \in Tail_keys
  PROVE  Ordered(p \o q)
  <1>1. Len(p) \in Nat /\ Len(p) >= 2 /\ Len(q) \in Nat /\ \A j \in 1..Len(q) : q[j].key \in Tail_keys
    BY LenProperties DEF Ordered
  <1>2. p \in Seq(ps \cup qs) /\ q \in Seq(ps \cup qs)
    OBVIOUS
  <1>3. /\ Len(p \o q) = Len(p) + Len(q)
        /\ \A j \in 1..Len(p) : (p \o q)[j] = p[j]
        /\ \A j \in 1..Len(q) : (p \o q)[Len(p) + j] = q[j]
    BY <1>2
  <1> DEFINE r == p \o q
             m == Len(p)
  <1>4. /\ Len(r) = m + Len(q) /\ \A j \in 1..m : r[j] = p[j]
        /\ \A j \in 1..Len(q) : r[m + j] = q[j]
    BY <1>3
  <1>5. m \in Nat /\ m >= 2 /\ Len(q) \in Nat
    BY <1>1
  <1> HIDE DEF r
  <1>6. ASSUME NEW j \in 3..Len(r) PROVE r[j].key \in Tail_keys
    <2>1. CASE j <= m
      <3>1. j \in 1..m /\ j \in 3..m
        BY <1>5, <2>1
      <3> QED BY <1>4, <3>1 DEF Ordered
    <2>2. CASE ~(j <= m)
      <3>1. j - m \in 1..Len(q) /\ m + (j - m) = j
        <4> HIDE DEF m
        <4> QED BY <1>4, <1>5, <2>2
      <3>2. r[j] = q[j - m]
        BY <1>4, <3>1
      <3> QED BY <1>1, <3>1, <3>2
    <2> QED BY <2>1, <2>2
  <1>7. 1 \in 1..m /\ 2 \in 1..m
    BY <1>5
  <1>8. r[1] = p[1] /\ r[2] = p[2]
    BY <1>4, <1>7
  <1>9. Len(r) \in Nat /\ Len(r) >= 2
    BY <1>4, <1>5
  <1> QED BY <1>6, <1>8, <1>9 DEF Ordered, r

HeadPart(c) == IF c.driver # "" THEN Part("DRIVER", "braced", c.driver, 0) ELSE Part("DSN", "value", c.dsn, 0)
UrlParts(c) == IF c.backend = "websocket" THEN {Part("URL", "braced", c.url, 0)} ELSE {}
DbPart(c) == Part("DB", "value", c.db, 0)
ColParts(c) == IF c.col_bind # "" THEN {Part("CHARSET_FOR_COL_BIND", "value", c.col_bind, 0)} ELSE {}
ParamParts(c) == IF c.param_bind # "" THEN {Part("CHARSET_FOR_PARAM_BIND", "value", c.param_bind, 0)} ELSE {}
FlagParts(c) == {Flag("UNSIGNED_PROMOTION", c.unsigned_promotion), Flag("TIMESTAMP_AS_IS", c.timestamp_as_is),
                 Flag("CONN_MODE", c.conn_mode)}
ZipParts(c) == IF c.compression # "unset" THEN {Part("COMPRESSION", "digits", c.compression, 0)} ELSE {}
OutParts(c) ==
  {HeadPart(c)} \cup UrlParts(c) \cup {ServerPart(c), DbPart(c)} \cup ColParts(c) \cup ParamParts(c) \cup FlagParts(c)
  \cup ZipParts(c)

LEMMA Joined ==
  ASSUME NEW a, NEW b, NEW c, NEW d
  PROVE  /\ <<a>> \o <<>> = <<a>> /\ <<>> \o <<a>> = <<a>>
         /\ LET r == (<<a>> \o <<>>) \o <<c, d>>
            IN  Len(r) = 3 /\ r[1] = a /\ r[2] = c /\ r[3] = d
         /\ LET r == (<<a>> \o <<b>>) \o <<c, d>>
            IN  Len(r) = 4 /\ r[1] = a /\ r[2] = b /\ r[3] = c /\ r[4] = d
  <1> DEFINE S == {a, b, c, d}
             x == <<a>>
             y == <<b>>
             z == <<c, d>>
  <1>1. x \o <<>> = x /\ <<>> \o x = x
    BY x \in Seq({a}), ConcatEmptySeq
  <1>2. /\ x \in Seq(S) /\ Len(x) = 1 /\ x[1] = a
        /\ y \in Seq(S) /\ Len(y) = 1 /\ y[1] = b
        /\ z \in Seq(S) /\ Len(z) = 2 /\ z[1] = c /\ z[2] = d
    OBVIOUS
  <1> HIDE DEF x, y, z, S
  <1>3. ASSUME NEW s \in Seq(S), NEW t \in Seq(S)
        PROVE  /\ s \o t \in Seq(S) /\ Len(s \o t) = Len(s) + Len(t)
               /\ \A j \in 1..Len(s) : (s \o t)[j] = s[j]
               /\ \A j \in 1..Len(t) : (s \o t)[Len(s) + j] = t[j]
    OBVIOUS
  <1>4. \A s, t \in Seq(S) : /\ s \o t \in Seq(S) /\ Len(s \o t) = Len(s) + Len(t)
                             /\ Len(s) >= 1 => (s \o t)[1] = s[1]
                             /\ Len(s) >= 2 => (s \o t)[2] = s[2]
                             /\ Len(t) >= 1 => (s \o t)[Len(s) + 1] = t[1]
                             /\ Len(t) >= 2 => (s \o t)[Len(s) + 2] = t[2]
    <2> TAKE s \in Seq(S)
    <2> TAKE t \in Seq(S)
    <2>1. Len(s) \in Nat /\ Len(t) \in Nat
      OBVIOUS
    <2>2. \A k \in Nat : /\ k >= 1 => 1 \in 1..k
                         /\ k >= 2 => 2 \in 1..k
      OBVIOUS
    <2> QED BY <1>3, <2>1, <2>2
  <1>5. /\ Len(x \o z) = 3 /\ (x \o z)[1] = a /\ (x \o z)[2] = c /\ (x \o z)[3] = d
    <2>1. /\ Len(x \o z) = Len(x) + Len(z) /\ (x \o z)[1] = x[1]
          /\ (x \o z)[Len(x) + 1] = z[1] /\ (x \o z)[Len(x) + 2] = z[2]
      <3>1. x \in Seq(S) /\ z \in Seq(S) /\ Len(x) >= 1 /\ Len(z) >= 1 /\ Len(z) >= 2
        BY <1>2
      <3> QED BY <1>4, <3>1, Zenon
    <2>2. Len(x) + Len(z) = 3 /\ Len(x) + 1 = 2 /\ Len(x) + 2 = 3
      BY <1>2
    <2> QED BY <1>2, <2>1, <2>2
  <1> DEFINE w == x \o y
  <1>6. w \in Seq(S) /\ Len(w) = 2 /\ w[1] = a /\ w[2] = b
    <2>1. x \in Seq(S) /\ y \in Seq(S) /\ Len(x) >= 1 /\ Len(y) >= 1
      BY <1>2
    <2>2. w \in Seq(S) /\ Len(w) = Len(x) + Len(y) /\ w[1] = x[1] /\ w[Len(x) + 1] = y[1]
      BY <1>4, <2>1, Zenon
    <2>3. Len(x) + Len(y) = 2 /\ Len(x) + 1 = 2
      BY <1>2
    <2> HIDE DEF w
    <2> QED BY <1>2, <2>2, <2>3
  <1> HIDE DEF w
  <1>7. /\ Len(w \o z) = 4 /\ (w \o z)[1] = a /\ (w \o z)[2] = b /\ (w \o z)[3] = c /\ (w \o z)[4] = d
    <2>1. /\ Len(w \o z) = Len(w) + Len(z) /\ (w \o z)[1] = w[1] /\ (w \o z)[2] = w[2]
          /\ (w \o z)[Len(w) + 1] = z[1] /\ (w \o z)[Len(w) + 2] = z[2]
      <3>1. w \in Seq(S) /\ z \in Seq(S) /\ Len(w) >= 1 /\ Len(w) >= 2 /\ Len(z) >= 1 /\ Len(z) >= 2
        BY <1>2, <1>6
      <3> QED BY <1>4, <3>1, Zenon
    <2>2. Len(w) + Len(z) = 4 /\ Len(w) + 1 = 3 /\ Len(w) + 2 = 4
      BY <1>2, <1>6
    <2> QED BY <1>2, <1>6, <2>1, <2>2
  <1> QED BY <1>1, <1>5, <1>7 DEF w, x, y, z

\* What is told of a configuration is written as the scanner reads it.
LEMMA KindsTold ==
  ASSUME NEW c, Reparsable(c)
  PROVE  /\ c.driver \notin Short /\ Kind(c.db) = "value" /\ c.db # ""
         /\ c.col_bind # "" => Kind(c.col_bind) = "value"
         /\ c.param_bind # "" => Kind(c.param_bind) = "value"
         /\ ServerPart(c).kind \in {"fqdn", "none"}
  <1>1. \A text : Kind(text) = "none" => text = ""
    BY DEF Kind
  <1>2. Kind("") = "none"
    BY DEF Kind
  <1>3. HostKind(c) \in {"fqdn", "none"}
    BY DEF HostKind, Reparsable
  <1> QED BY <1>1, <1>2, <1>3 DEF Reparsable, ServerPart, Part

LEMMA OutIsListed ==
  ASSUME NEW c, Reparsable(c)
  PROVE  Lists(_conn_fill_out_connection_str(c), OutParts(c)) /\ Ordered(_conn_fill_out_connection_str(c))
  <1> DEFINE d == Optional(c.driver # "", Part("DRIVER", "braced", c.driver, 0))
             s == Optional(c.driver = "" /\ c.dsn # "", Part("DSN", "value", c.dsn, 0))
             u == Optional(c.backend = "websocket", Part("URL", "braced", c.url, 0))
             h == HeadPart(c)
             sv == ServerPart(c)
             db == DbPart(c)
             cb == Optional(c.col_bind # "", Part("CHARSET_FOR_COL_BIND", "value", c.col_bind, 0))
             pb == Optional(c.param_bind # "", Part("CHARSET_FOR_PARAM_BIND", "value", c.param_bind, 0))
             fs == <<Flag("UNSIGNED_PROMOTION", c.unsigned_promotion), Flag("TIMESTAMP_AS_IS", c.timestamp_as_is),
                     Flag("CONN_MODE", c.conn_mode)>>
             pr == Optional(c.product # "general", Part("CUSTOMPRODUCT", "value", c.product, 0))
             z == Optional(c.compression # "unset", Part("COMPRESSION", "digits", c.compression, 0))
             p1 == (d \o s) \o u
             p2 == p1 \o <<sv, db>>
             p3 == p2 \o cb
             p4 == p3 \o pb
             p5 == p4 \o fs
             p6 == (p5 \o pr) \o z
  <1>1. _conn_fill_out_connection_str(c) = p6
    <2>1. d = Optional(c.driver # "", Part("DRIVER", IF c.driver \in Short THEN "other" ELSE "braced", c.driver, 0))
      BY KindsTold
    <2>2. db = Part("DB", Kind(c.db), c.db, 0)
      BY KindsTold DEF DbPart
    <2>3. cb = Optional(c.col_bind # "", Part("CHARSET_FOR_COL_BIND", Kind(c.col_bind), c.col_bind, 0))
      BY KindsTold DEF Optional
    <2>4. pb = Optional(c.param_bind # "", Part("CHARSET_FOR_PARAM_BIND", Kind(c.param_bind), c.param_bind, 0))
      BY KindsTold DEF Optional
    <2> HIDE DEF d, db, cb, pb
    <2> QED BY <2>1, <2>2, <2>3, <2>4 DEF _conn_fill_out_connection_str
  <1>2. d \o s = <<h>>
    <2>1. CASE c.driver # ""
      <3>1. d = <<h>> /\ s = <<>>
        BY <2>1 DEF Optional, HeadPart
      <3> HIDE DEF d, s, h
      <3> QED BY <3>1, Joined
    <2>2. CASE c.driver = ""
      <3>1. d = <<>> /\ s = <<h>>
        BY <2>2 DEF Optional, HeadPart, Reparsable
      <3> HIDE DEF d, s, h
      <3> QED BY <3>1, Joined
    <2> QED BY <2>1, <2>2
  <1>3. pr = <<>>
    BY DEF Reparsable, Optional
  <1>4. /\ Lists(u, UrlParts(c)) /\ Lists(cb, ColParts(c)) /\ Lists(pb, ParamParts(c)) /\ Lists(z, ZipParts(c))
    <2>1. Lists(u, UrlParts(c))
      BY ListsOptional DEF UrlParts
    <2>2. Lists(cb, ColParts(c))
      BY ListsOptional DEF ColParts
    <2>3. Lists(pb, ParamParts(c))
      BY ListsOptional DEF ParamParts
    <2>4. Lists(z, ZipParts(c))
      BY ListsOptional DEF ZipParts
    <2> QED BY <2>1, <2>2, <2>3, <2>4
  <1>5. \A x, y, w : Lists(<<x>>, {x}) /\ Lists(<<x, y>>, {x, y}) /\ Lists(<<x, y, w>>, {x, y, w})
    <2> TAKE x, y, w
    <2>1. <<x>> \in Seq({x}) /\ Len(<<x>>) = 1 /\ <<x>>[1] = x /\ 1 \in 1..1
      OBVIOUS
    <2>2. <<x, y>> \in Seq({x, y}) /\ Len(<<x, y>>) = 2 /\ <<x, y>>[1] = x /\ <<x, y>>[2] = y /\ 1 \in 1..2 /\ 2 \in 1..2
      OBVIOUS
    <2>3. /\ <<x, y, w>> \in Seq({x, y, w}) /\ Len(<<x, y, w>>) = 3
          /\ <<x, y, w>>[1] = x /\ <<x, y, w>>[2] = y /\ <<x, y, w>>[3] = w /\ 1 \in 1..3 /\ 2 \in 1..3 /\ 3 \in 1..3
      OBVIOUS
    <2>4. Lists(<<x>>, {x})
      BY <2>1 DEF Lists
    <2>5. Lists(<<x, y>>, {x, y})
      BY <2>2 DEF Lists
    <2>6. Lists(<<x, y, w>>, {x, y, w})
      BY <2>3 DEF Lists
    <2> QED BY <2>4, <2>5, <2>6
  <1>6. Lists(<<sv, db>>, {sv, db}) /\ Lists(fs, FlagParts(c)) /\ Lists(<<h>>, {h})
    BY <1>5 DEF FlagParts
  <1>7. p1 = <<h>> \o u
    BY <1>2
  <1>8. Ordered(p2)
    <2>0. h.key \in {"DSN", "DRIVER"} /\ sv.key \in Odbc_attr /\ db.key \in Odbc_attr
      BY DEF HeadPart, ServerPart, DbPart, Part, Odbc_attr
    <2>00. Odbc_attr \subseteq Tail_keys
      BY DEF Tail_keys
    <2>1. CASE c.backend = "websocket"
      <3> DEFINE x == Part("URL", "braced", c.url, 0)
      <3>1. u = <<x>>
        BY <2>1 DEF Optional
      <3>2. x.key = "URL"
        BY DEF Part
      <3> HIDE DEF h, u, x, sv, db
      <3>3. Len(p2) = 4 /\ p2[1] = h /\ p2[2] = x /\ p2[3] = sv /\ p2[4] = db
        <4>1. p2 = (<<h>> \o <<x>>) \o <<sv, db>>
          BY <1>7, <3>1
        <4> HIDE DEF p2, p1
        <4> QED BY <4>1, Joined
      <3>4. \A j \in 3..4 : j \in {3, 4}
        OBVIOUS
      <3> HIDE DEF p2
      <3> QED BY <2>0, <2>00, <3>2, <3>3, <3>4 DEF Ordered
    <2>2. CASE c.backend # "websocket"
      <3>1. u = <<>>
        BY <2>2 DEF Optional
      <3> HIDE DEF h, u, sv, db
      <3>3. Len(p2) = 3 /\ p2[1] = h /\ p2[2] = sv /\ p2[3] = db
        <4>1. p2 = (<<h>> \o <<>>) \o <<sv, db>>
          BY <1>7, <3>1
        <4> HIDE DEF p2, p1
        <4> QED BY <4>1, Joined
      <3>4. \A j \in 3..3 : j \in {3}
        OBVIOUS
      <3> HIDE DEF p2
      <3> QED BY <2>0, <2>00, <3>3, <3>4 DEF Ordered
    <2> QED BY <2>1, <2>2
  <1>9. \A x \in ColParts(c) \cup ParamParts(c) \cup FlagParts(c) \cup ZipParts(c) : x.key \in Tail_keys
    <2>1. \A key, kind, val, port : Part(key, kind, val, port).key = key
      BY DEF Part
    <2>2. {"CHARSET_FOR_COL_BIND", "CHARSET_FOR_PARAM_BIND", "UNSIGNED_PROMOTION", "TIMESTAMP_AS_IS", "CONN_MODE",
           "COMPRESSION"} \subseteq Tail_keys
      BY DEF Tail_keys, Attribute
    <2>3. (\A x \in ColParts(c) : x.key \in Tail_keys) /\ \A x \in ParamParts(c) : x.key \in Tail_keys
      <3>1. \A x \in ColParts(c) : x.key = "CHARSET_FOR_COL_BIND"
        <4> TAKE x \in ColParts(c)
        <4>1. x = Part("CHARSET_FOR_COL_BIND", "value", c.col_bind, 0)
          BY DEF ColParts
        <4> QED BY <2>1, <4>1
      <3>2. \A x \in ParamParts(c) : x.key = "CHARSET_FOR_PARAM_BIND"
        <4> TAKE x \in ParamParts(c)
        <4>1. x = Part("CHARSET_FOR_PARAM_BIND", "value", c.param_bind, 0)
          BY DEF ParamParts
        <4> QED BY <2>1, <4>1
      <3> QED BY <2>2, <3>1, <3>2
    <2>4. \A x \in FlagParts(c) : x.key \in Tail_keys
      BY <2>1, <2>2 DEF FlagParts, Flag
    <2>5. \A x \in ZipParts(c) : x.key \in Tail_keys
      BY <2>1, <2>2 DEF ZipParts
    <2> QED BY <2>3, <2>4, <2>5
  <1> HIDE DEF d, s, u, h, sv, db, cb, pb, fs, pr, z, p1
  <1>10. Lists(p1, {h} \cup UrlParts(c))
    BY <1>4, <1>6, <1>7, ListsConcat
  <1>11. Lists(p2, {h} \cup UrlParts(c) \cup {sv, db})
    BY <1>6, <1>10, ListsConcat
  <1> HIDE DEF p2
  <1>12. Lists(p3, {h} \cup UrlParts(c) \cup {sv, db} \cup ColParts(c)) /\ Ordered(p3)
    <2>1. Lists(p3, {h} \cup UrlParts(c) \cup {sv, db} \cup ColParts(c))
      BY <1>4, <1>11, ListsConcat
    <2>2. Ordered(p3)
      BY <1>4, <1>8, <1>9, <1>11, OrderedConcat DEF Lists
    <2> QED BY <2>1, <2>2
  <1> HIDE DEF p3
  <1>13. Lists(p4, {h} \cup UrlParts(c) \cup {sv, db} \cup ColParts(c) \cup ParamParts(c)) /\ Ordered(p4)
    <2>1. Lists(p4, {h} \cup UrlParts(c) \cup {sv, db} \cup ColParts(c) \cup ParamParts(c))
      BY <1>4, <1>12, ListsConcat
    <2>2. Ordered(p4)
      BY <1>4, <1>9, <1>12, OrderedConcat DEF Lists
    <2> QED BY <2>1, <2>2
  <1> HIDE DEF p4
  <1>14. Lists(p5, {h} \cup UrlParts(c) \cup {sv, db} \cup ColParts(c) \cup ParamParts(c) \cup FlagParts(c)) /\ Ordered(p5)
    <2>1. Lists(p5, {h} \cup UrlParts(c) \cup {sv, db} \cup ColParts(c) \cup ParamParts(c) \cup FlagParts(c))
      BY <1>6, <1>13, ListsConcat
    <2>2. Ordered(p5)
      BY <1>6, <1>9, <1>13, OrderedConcat DEF Lists
    <2> QED BY <2>1, <2>2
  <1> HIDE DEF p5
  <1>15. p6 = p5 \o z
    <2>1. p5 \in Seq({h} \cup UrlParts(c) \cup {sv, db} \cup ColParts(c) \cup ParamParts(c) \cup FlagParts(c))
      BY <1>14 DEF Lists
    <2>2. p5 \o <<>> = p5
      BY <2>1, ConcatEmptySeq
    <2> QED BY <1>3, <2>2
  <1>16. Lists(p5 \o z, OutParts(c))
    <2>1. Lists(p5 \o z, ({h} \cup UrlParts(c) \cup {sv, db} \cup ColParts(c) \cup ParamParts(c) \cup FlagParts(c)) \cup ZipParts(c))
      BY <1>4, <1>14, ListsConcat
    <2> QED BY <2>1 DEF OutParts, h, sv, db
  <1>17. Ordered(p5 \o z)
    BY <1>4, <1>9, <1>14, OrderedConcat DEF Lists
  <1> QED BY <1>1, <1>15, <1>16, <1>17

-----------------------------------------------------------------------------
(* What is kept of the string a configuration comes from.                  *)

Kept(c, str) ==
  /\ c = [field \in DOMAIN conn_cfg_release |-> c[field]]
  /\ c.driver = Behind(str).driver /\ c.dsn = Behind(str).dsn /\ c.backend = Behind(str).backend
  /\ c.col_bind = "" => Behind(str).col_bind = ""
  /\ c.param_bind = "" => Behind(str).param_bind = ""
  /\ c.unsigned_promotion \in BOOLEAN /\ c.timestamp_as_is \in BOOLEAN /\ c.conn_mode \in BOOLEAN
  /\ c.compression \in {"unset", "0", "1"}
  /\ c.compression = "unset" => Source(str).compression = ""

LEMMA ParsedKeeps ==
  ASSUME NEW str, Known(str), ~conn_parser_fails(str)
  PROVE  Kept(conn_parser_parse(str), str)
  <1> DEFINE c == conn_parser_parse(str)
             n == Len(str)
             b == Behind(str)
             e == Source(str)
  <1>1. SetBy(c, str, n, e) /\ SetRest(c, str, n, b)
    BY StringIsObeyed DEF SetUpTo
  <1>2. n \in Nat /\ DOMAIN str = 1..n
    BY LenProperties DEF Known
  <1>3. \A j \in 1..n : Written(str[j]) /\ (str[j].key = "DSN" => ~DsnFails(Odbc_ini[str[j].val]))
    BY <1>2 DEF conn_parser_fails, Bad
  <1>4. c = [field \in DOMAIN conn_cfg_release |-> c[field]]
    BY DEF conn_parser_parse
  <1> HIDE DEF c, n, b, e
  <1>5. ASSUME NEW key \in {"CHARSET_FOR_COL_BIND", "CHARSET_FOR_PARAM_BIND"}, NEW v, SaidBy(str, n, key, [val |-> v]).val = ""
        PROVE  v = ""
    <2>1. CASE SaidBy(str, n, key, [val |-> v]) = [val |-> v]
      <3>1. \A w : [val |-> w].val = w
        OBVIOUS
      <3> QED BY <1>5, <2>1, <3>1, Zenon
    <2>2. ASSUME NEW j \in 1..n, str[j].key = key, SaidBy(str, n, key, [val |-> v]) = str[j]
          PROVE  FALSE
      <3>1. str[j].kind = "value"
        <4>1. Written(str[j])
          BY <1>3
        <4> QED BY <1>5, <2>2, <4>1 DEF Written
      <3>2. str[j].val # ""
        BY <1>2, <2>2, <3>1 DEF Known
      <3> QED BY <1>5, <2>2, <3>2
    <2>3. \/ SaidBy(str, n, key, [val |-> v]) = [val |-> v]
          \/ \E j \in 1..n : str[j].key = key /\ SaidBy(str, n, key, [val |-> v]) = str[j]
      <3> DEFINE d == [val |-> v]
      <3>1. n \in Nat
        BY <1>2
      <3> HIDE DEF d
      <3>2. SaidBy(str, n, key, d) = d \/ \E j \in 1..n : str[j].key = key /\ SaidBy(str, n, key, d) = str[j]
        BY <3>1, SomePartSays
      <3> QED BY <3>2 DEF d
    <2> QED BY <2>1, <2>2, <2>3
  <1>6. e.compression \in {"", "0", "1"}
    <2>1. CASE str # <<>> /\ str[1].key = "DSN"
      <3>1. 1 \in 1..n
        <4>1. n # 0
          BY <2>1, EmptySeq DEF Known, n
        <4> QED BY <1>2, <4>1
      <3>2. ~DsnFails(Odbc_ini[str[1].val])
        BY <1>3, <2>1, <3>1
      <3> QED BY <2>1, <3>2 DEF DsnFails, e, Source
    <2>2. CASE ~(str # <<>> /\ str[1].key = "DSN")
      BY <2>2 DEF e, Source, NoDsn
    <2> QED BY <2>1, <2>2
  <1> DEFINE zip == SaidBy(str, n, "COMPRESSION", [val |-> e.compression])
  <1>7. zip.val \in {"", "0", "1"} /\ (zip.val = "" => e.compression = "")
    <2>1. CASE zip = [val |-> e.compression]
      <3>1. zip.val = e.compression
        BY <2>1
      <3> QED BY <1>6, <3>1
    <2>2. ASSUME NEW j \in 1..n, str[j].key = "COMPRESSION", zip = str[j]
          PROVE  zip.val \in {"0", "1"}
      <3>1. Written(str[j])
        BY <1>3
      <3> QED BY <2>2, <3>1 DEF Written
    <2>3. zip = [val |-> e.compression] \/ \E j \in 1..n : str[j].key = "COMPRESSION" /\ zip = str[j]
      BY <1>2, SomePartSays
    <2> HIDE DEF zip
    <2> QED BY <2>1, <2>2, <2>3
  <1>8. c.compression = Compressed(zip.val)
    BY <1>1 DEF SetBy, Cfg
  <1> HIDE DEF zip
  <1>9. c.compression \in {"unset", "0", "1"} /\ (c.compression = "unset" => e.compression = "")
    BY <1>7, <1>8 DEF Compressed
  <1>10. /\ c.driver = b.driver /\ c.dsn = b.dsn /\ c.backend = b.backend
         /\ c.col_bind = SaidBy(str, n, "CHARSET_FOR_COL_BIND", [val |-> b.col_bind]).val
         /\ c.param_bind = SaidBy(str, n, "CHARSET_FOR_PARAM_BIND", [val |-> b.param_bind]).val
         /\ c.unsigned_promotion \in BOOLEAN /\ c.timestamp_as_is \in BOOLEAN
    BY <1>1 DEF SetRest
  <1>11. c.conn_mode \in BOOLEAN
    BY <1>1 DEF SetBy, Cfg
  <1>12. c.col_bind = "" => b.col_bind = ""
    BY <1>5, <1>10
  <1>13. c.param_bind = "" => b.param_bind = ""
    BY <1>5, <1>10
  <1> QED BY <1>4, <1>9, <1>10, <1>11, <1>12, <1>13 DEF Kept, b, e, c

LEMMA FillKeeps ==
  ASSUME NEW c, NEW str, Kept(c, str)
  PROVE  Kept(_conn_fill_cfg_from_url(c), str)
  <1>1. /\ c = [field \in DOMAIN conn_cfg_release |-> c[field]]
        /\ {"uid", "pwd", "db", "ip", "port", "url", "conn_mode", "compression", "driver", "dsn", "backend", "product",
            "col_bind", "param_bind", "unsigned_promotion", "timestamp_as_is"} \subseteq DOMAIN c
    BY DEF Kept, conn_cfg_release
  <1>2. CASE c.url = NoUrl
    BY <1>2 DEF _conn_fill_cfg_from_url
  <1>3. CASE c.url # NoUrl
    <2> DEFINE f == _conn_fill_cfg_from_url(c)
    <2>1. /\ f = [field \in DOMAIN c |-> f[field]]
          /\ f.driver = c.driver /\ f.dsn = c.dsn /\ f.backend = c.backend /\ f.col_bind = c.col_bind
          /\ f.param_bind = c.param_bind /\ f.unsigned_promotion = c.unsigned_promotion
          /\ f.timestamp_as_is = c.timestamp_as_is /\ f.conn_mode = c.conn_mode /\ f.compression = c.compression
      BY <1>1, <1>3 DEF _conn_fill_cfg_from_url
    <2>2. DOMAIN c = DOMAIN conn_cfg_release
      BY <1>1
    <2> HIDE DEF f
    <2>3. Kept(f, str)
      BY <2>1, <2>2 DEF Kept
    <2> QED BY <2>3 DEF f
  <1> QED BY <1>2, <1>3

\* The part of each key, of those handed back.
LEMMA OutPartsByKey ==
  ASSUME NEW c, NEW y \in OutParts(c)
  PROVE  /\ y.key \in {"DSN", "DRIVER"} => y = HeadPart(c)
         /\ y.key = "URL" => y \in UrlParts(c)
         /\ y.key = "SERVER" => y = ServerPart(c)
         /\ y.key = "DB" => y = DbPart(c)
         /\ y.key = "CHARSET_FOR_COL_BIND" => y \in ColParts(c)
         /\ y.key = "CHARSET_FOR_PARAM_BIND" => y \in ParamParts(c)
         /\ y.key = "UNSIGNED_PROMOTION" => y = Flag("UNSIGNED_PROMOTION", c.unsigned_promotion)
         /\ y.key = "TIMESTAMP_AS_IS" => y = Flag("TIMESTAMP_AS_IS", c.timestamp_as_is)
         /\ y.key = "CONN_MODE" => y = Flag("CONN_MODE", c.conn_mode)
         /\ y.key = "COMPRESSION" => y \in ZipParts(c)
         /\ y.key # "CUSTOMPRODUCT"
  <1>1. CASE y = HeadPart(c)
    BY <1>1 DEF HeadPart, Part
  <1>2. CASE y \in UrlParts(c)
    BY <1>2 DEF UrlParts, Part
  <1>3. CASE y = ServerPart(c)
    BY <1>3 DEF ServerPart, Part
  <1>4. CASE y = DbPart(c)
    BY <1>4 DEF DbPart, Part
  <1>5. CASE y \in ColParts(c)
    <2>1. y = Part("CHARSET_FOR_COL_BIND", "value", c.col_bind, 0) /\ c.col_bind # ""
      BY <1>5 DEF ColParts
    <2> QED BY <1>5, <2>1 DEF Part
  <1>6. CASE y \in ParamParts(c)
    <2>1. y = Part("CHARSET_FOR_PARAM_BIND", "value", c.param_bind, 0) /\ c.param_bind # ""
      BY <1>6 DEF ParamParts
    <2> QED BY <1>6, <2>1 DEF Part
  <1>7. CASE y \in FlagParts(c)
    <2>1. y = Flag("UNSIGNED_PROMOTION", c.unsigned_promotion) \/ y = Flag("TIMESTAMP_AS_IS", c.timestamp_as_is)
          \/ y = Flag("CONN_MODE", c.conn_mode)
      BY <1>7 DEF FlagParts
    <2>2. \A key, on : Flag(key, on).key = key
      BY DEF Flag, Part
    <2> QED BY <2>1, <2>2
  <1>8. CASE y \in ZipParts(c)
    BY <1>8 DEF ZipParts, Part
  <1> QED BY <1>1, <1>2, <1>3, <1>4, <1>5, <1>6, <1>7, <1>8 DEF OutParts

\* Each part is written as the parser reads it.
LEMMA OutPartsAreWritten ==
  ASSUME NEW c, NEW str, Kept(c, str), Reparsable(c), NEW y \in OutParts(c)
  PROVE  /\ Written(y)
         /\ y.kind \in {"digits", "value"} => y.val # ""
  <1>1. CASE y = HeadPart(c)
    BY <1>1 DEF HeadPart, Part, Written, Reparsable
  <1>2. CASE y \in UrlParts(c)
    <2>1. y = Part("URL", "braced", c.url, 0)
      BY <1>2 DEF UrlParts
    <2>2. y.key = "URL" /\ y.kind = "braced" /\ y.val = c.url
      BY <2>1 DEF Part
    <2> QED BY <2>1, <2>2 DEF Written
  <1>3. CASE y = ServerPart(c)
    BY <1>3, KindsTold DEF ServerPart, Part, Written
  <1>4. CASE y = DbPart(c)
    BY <1>4, KindsTold DEF DbPart, Part, Written
  <1>5. CASE y \in ColParts(c)
    <2>1. y = Part("CHARSET_FOR_COL_BIND", "value", c.col_bind, 0) /\ c.col_bind # ""
      BY <1>5 DEF ColParts
    <2>2. y.key = "CHARSET_FOR_COL_BIND" /\ y.kind = "value" /\ y.val = c.col_bind
      BY <2>1 DEF Part
    <2> QED BY <2>1, <2>2 DEF Written
  <1>6. CASE y \in ParamParts(c)
    <2>1. y = Part("CHARSET_FOR_PARAM_BIND", "value", c.param_bind, 0) /\ c.param_bind # ""
      BY <1>6 DEF ParamParts
    <2>2. y.key = "CHARSET_FOR_PARAM_BIND" /\ y.kind = "value" /\ y.val = c.param_bind
      BY <2>1 DEF Part
    <2> QED BY <2>1, <2>2 DEF Written
  <1>7. CASE y \in FlagParts(c)
    <2>1. \A key, on : Flag(key, on).key = key /\ Flag(key, on).kind = "digits" /\ Flag(key, on).val \in {"0", "1"}
      BY DEF Flag, Part
    <2>2. y.key \in {"UNSIGNED_PROMOTION", "TIMESTAMP_AS_IS", "CONN_MODE"} /\ y.kind = "digits" /\ y.val \in {"0", "1"}
      BY <1>7, <2>1 DEF FlagParts
    <2> QED BY <2>2 DEF Written
  <1>8. CASE y \in ZipParts(c)
    <2>1. y = Part("COMPRESSION", "digits", c.compression, 0) /\ c.compression # "unset"
      BY <1>8 DEF ZipParts
    <2>2. y.key = "COMPRESSION" /\ y.kind = "digits" /\ y.val = c.compression
      BY <2>1 DEF Part
    <2> QED BY <2>1, <2>2 DEF Written, Kept
  <1> QED BY <1>1, <1>2, <1>3, <1>4, <1>5, <1>6, <1>7, <1>8 DEF OutParts

\* The string handed back begins with the data source or the driver it was called with.
LEMMA OutBegins ==
  ASSUME NEW c, NEW str, Known(str), ~conn_parser_fails(str), Kept(c, str), Reparsable(c), NEW p,
         p # <<>>, p[1] = HeadPart(c)
  PROVE  /\ Behind(p) = Behind(str) /\ Source(p) = Source(str)
         /\ p[1].key = "DSN" => p[1].val \in DOMAIN Odbc_ini /\ ~DsnFails(Odbc_ini[p[1].val])
         /\ Behind(str).product = "general"
         /\ Behind(str).backend = "websocket" \/ Source(str).url = NoUrl
  <1> DEFINE b == Behind(str)
             n == Len(str)
  <1>1. n \in Nat /\ DOMAIN str = 1..n /\ (str # <<>> => n # 0)
    BY LenProperties, EmptySeq DEF Known
  <1>2. c.driver = b.driver /\ c.dsn = b.dsn
    BY DEF Kept
  <1>3. str # <<>>
    <2>1. ASSUME str = <<>> PROVE b.driver = "" /\ b.dsn = ""
      BY <2>1 DEF Behind, conn_cfg_release
    <2> QED BY <1>2, <2>1 DEF Reparsable
  <1>4. 1 \in DOMAIN str
    BY <1>1, <1>3
  <1>5. ~Bad(str, 1)
    BY <1>4 DEF conn_parser_fails
  <1>6. str[1].key \in {"DSN", "DRIVER"} /\ (str[1].key = "DSN" => ~DsnFails(Odbc_ini[str[1].val]))
    BY <1>5 DEF Bad, Follows
  <1>7. b = Set(conn_cfg_release, str[1]) /\ Behind(p) = Set(conn_cfg_release, p[1])
    BY <1>3 DEF Behind
  <1> HIDE DEF b
  <1>8. CASE str[1].key = "DSN"
    <2> DEFINE d == str[1].val
    <2>1. d \in DOMAIN Odbc_ini /\ ~DsnFails(Odbc_ini[d])
      BY <1>4, <1>6, <1>8 DEF Known
    <2>2. b = _conn_cfg_init_by_dsn(conn_cfg_release, d)
      BY <1>7, <1>8 DEF Set
    <2>3. /\ b.driver = "" /\ b.dsn = d
          /\ b.backend = IF Odbc_ini[d].url = NoUrl THEN "native" ELSE "websocket"
          /\ b.product = conn_get_custprod_by_name(Odbc_ini[d].customproduct)
      BY <2>1, <2>2, DsnRestIsRead
    <2> HIDE DEF d
    <2>4. p[1] = Part("DSN", "value", d, 0) /\ c.dsn = d /\ c.dsn # ""
      BY <1>2, <2>3 DEF HeadPart, Reparsable
    <2>5. p[1].key = "DSN" /\ p[1].val = d
      <3>1. \A v : Part("DSN", "value", v, 0).key = "DSN" /\ Part("DSN", "value", v, 0).val = v
        BY DEF Part
      <3> QED BY <2>4, <3>1
    <2>6. Behind(p) = b
      BY <1>7, <2>2, <2>5 DEF Set
    <2>7. Source(p) = Odbc_ini[d] /\ Source(str) = Odbc_ini[d]
      BY <1>3, <1>8, <2>5 DEF Source, d
    <2>8. b.product = "general"
      BY <2>3, <2>4 DEF Reparsable
    <2>9. b.backend = "websocket" \/ Source(str).url = NoUrl
      BY <2>3, <2>7
    <2> QED BY <2>1, <2>5, <2>6, <2>7, <2>8, <2>9 DEF b
  <1>9. CASE str[1].key = "DRIVER"
    <2> DEFINE v == str[1].val
    <2>1. b = [conn_cfg_release EXCEPT !.driver = v]
      BY <1>7, <1>9 DEF Set
    <2>2. b.driver = v /\ b.dsn = "" /\ b.product = "general"
      BY <2>1 DEF conn_cfg_release
    <2> HIDE DEF v
    <2>3. p[1] = Part("DRIVER", "braced", v, 0)
      BY <1>2, <2>2 DEF HeadPart, Reparsable
    <2>4. p[1].key = "DRIVER" /\ p[1].val = v
      BY <2>3 DEF Part
    <2>5. Behind(p) = b
      BY <1>7, <2>1, <2>4 DEF Set
    <2>6. Source(p) = NoDsn /\ Source(str) = NoDsn /\ NoDsn.url = NoUrl
      BY <1>3, <1>9, <2>4 DEF Source, NoDsn
    <2> QED BY <2>2, <2>4, <2>5, <2>6 DEF b
  <1> QED BY <1>6, <1>8, <1>9

\* It parses.
LEMMA OutParses ==
  ASSUME NEW c, NEW str, Known(str), ~conn_parser_fails(str), Kept(c, str), Reparsable(c)
  PROVE  LET p == _conn_fill_out_connection_str(c)
         IN  Known(p) /\ ~conn_parser_fails(p) /\ p # <<>> /\ p[1] = HeadPart(c)
  <1> DEFINE p == _conn_fill_out_connection_str(c)
  <1>1. Lists(p, OutParts(c)) /\ Ordered(p)
    BY OutIsListed
  <1> HIDE DEF p
  <1>2. p \in Seq(OutParts(c)) /\ Len(p) \in Nat /\ Len(p) >= 2 /\ DOMAIN p = 1..Len(p)
    BY <1>1, LenProperties DEF Lists, Ordered
  <1>3. \A j \in DOMAIN p : p[j] \in OutParts(c)
    BY <1>2
  <1>4. 1 \in DOMAIN p /\ p # <<>>
    BY <1>2, EmptySeq
  <1>5. p[1] = HeadPart(c)
    BY <1>1, <1>3, <1>4, OutPartsByKey DEF Ordered
  <1>6. p[1].key = "DSN" => p[1].val \in DOMAIN Odbc_ini /\ ~DsnFails(Odbc_ini[p[1].val])
    BY <1>4, <1>5, OutBegins
  <1>7. \A j \in DOMAIN p : p[j].key = "DSN" => p[j] = p[1]
    BY <1>3, <1>5, OutPartsByKey
  <1>8. \A j \in DOMAIN p : Written(p[j]) /\ (p[j].kind \in {"digits", "value"} => p[j].val # "")
    BY <1>3, OutPartsAreWritten
  <1>9. Known(p)
    <2>1. p \in Seq({p[j] : j \in DOMAIN p})
      BY <1>2
    <2>2. ASSUME NEW j \in DOMAIN p, p[j].key = "DSN" PROVE p[j].val \in DOMAIN Odbc_ini
      BY <1>6, <1>7, <2>2
    <2> QED BY <1>8, <2>1, <2>2 DEF Known
  <1>10. ASSUME NEW j \in DOMAIN p PROVE Follows(p, j)
    <2>1. p[1].key \in {"DSN", "DRIVER"} /\ p[2].key \in {"URL"} \cup Odbc_attr
      BY <1>1 DEF Ordered
    <2>2. j \in 1..Len(p)
      BY <1>2
    <2>3. CASE j = 1
      BY <2>1, <2>3 DEF Follows
    <2>4. CASE j = 2
      BY <2>1, <2>4 DEF Follows, Url_attr
    <2>5. CASE j # 1 /\ j # 2
      <3>1. j \in 3..Len(p)
        BY <1>2, <2>2, <2>5
      <3>2. p[j].key \in Odbc_attr \cup Attribute
        BY <1>1, <3>1 DEF Ordered, Tail_keys
      <3> QED BY <2>1, <2>5, <3>2 DEF Follows, Url_attr
    <2> QED BY <2>3, <2>4, <2>5
  <1>11. ~conn_parser_fails(p)
    <2>1. ASSUME NEW j \in DOMAIN p PROVE ~Bad(p, j)
      BY <1>6, <1>7, <1>8, <1>10 DEF Bad
    <2> QED BY <2>1 DEF conn_parser_fails
  <1> QED BY <1>4, <1>5, <1>9, <1>11 DEF p

\* What is parsed again is what was told, in every field but user and password.
LEMMA OutIsRead ==
  ASSUME NEW c, NEW str, Known(str), ~conn_parser_fails(str), Kept(c, str), Reparsable(c)
  PROVE  LET q == conn_parser_parse(_conn_fill_out_connection_str(c))
         IN  /\ q = [field \in DOMAIN conn_cfg_release |-> q[field]]
             /\ q.driver = c.driver /\ q.dsn = c.dsn /\ q.backend = c.backend /\ q.url = c.url
             /\ q.ip = c.ip /\ q.port = c.port /\ q.db = c.db /\ q.col_bind = c.col_bind /\ q.param_bind = c.param_bind
             /\ q.product = c.product /\ q.unsigned_promotion = c.unsigned_promotion
             /\ q.timestamp_as_is = c.timestamp_as_is /\ q.conn_mode = c.conn_mode /\ q.compression = c.compression
  <1> DEFINE p == _conn_fill_out_connection_str(c)
             q == conn_parser_parse(p)
             n == Len(p)
             b == Behind(str)
             e == Source(str)
  <1>1. Known(p) /\ ~conn_parser_fails(p) /\ p # <<>> /\ p[1] = HeadPart(c)
    BY OutParses
  <1>2. q = [field \in DOMAIN conn_cfg_release |-> q[field]]
    BY DEF conn_parser_parse
  <1>3. Lists(p, OutParts(c))
    BY OutIsListed
  <1> HIDE DEF p
  <1>4. /\ Behind(p) = b /\ Source(p) = e /\ b.product = "general"
        /\ b.backend = "websocket" \/ e.url = NoUrl
    BY <1>1, OutBegins
  <1>5. SetBy(q, p, n, e) /\ SetRest(q, p, n, b)
    BY <1>1, <1>4, StringIsObeyed DEF SetUpTo
  <1> HIDE DEF q, n, b, e
  <1>6. /\ c.driver = b.driver /\ c.dsn = b.dsn /\ c.backend = b.backend
        /\ (c.col_bind = "" => b.col_bind = "") /\ (c.param_bind = "" => b.param_bind = "")
        /\ c.unsigned_promotion \in BOOLEAN /\ c.timestamp_as_is \in BOOLEAN /\ c.conn_mode \in BOOLEAN
        /\ c.compression \in {"unset", "0", "1"} /\ (c.compression = "unset" => e.compression = "")
    BY DEF Kept, b, e
  <1>7. \A key, d : /\ (\A x \in OutParts(c) : x.key # key) => SaidBy(p, n, key, d) = d
                    /\ \A x \in OutParts(c) : x.key = key /\ (\A y \in OutParts(c) : y.key = key => y = x)
                                              => SaidBy(p, n, key, d) = x
    BY <1>3, ListSays DEF n
  <1>8. \A key, kind, val, port : LET x == Part(key, kind, val, port)
                                  IN  x.key = key /\ x.val = val /\ x.port = port
    BY DEF Part
  <1>9. \A v : [val |-> v].val = v
    OBVIOUS
  <1>10. q.ip = c.ip /\ q.port = c.port
    <2> DEFINE x == ServerPart(c)
    <2>1. x \in OutParts(c) /\ x.key = "SERVER" /\ x.val = c.ip /\ x.port = c.port
      <3>1. x \in OutParts(c)
        BY DEF OutParts
      <3>2. x = Part("SERVER", HostKind(c), c.ip, c.port)
        BY DEF ServerPart
      <3> HIDE DEF x
      <3> QED BY <1>8, <3>1, <3>2
    <2> HIDE DEF x
    <2>2. \A y \in OutParts(c) : y.key = "SERVER" => y = x
      BY OutPartsByKey DEF x
    <2>3. \A d : SaidBy(p, n, "SERVER", d) = x
      BY <1>7, <2>1, <2>2
    <2> QED BY <1>5, <2>1, <2>3 DEF SetBy, Cfg
  <1>11. q.db = c.db
    <2> DEFINE x == DbPart(c)
    <2>1. x \in OutParts(c) /\ x.key = "DB" /\ x.val = c.db
      BY <1>8 DEF OutParts, DbPart
    <2> HIDE DEF x
    <2>2. \A y \in OutParts(c) : y.key = "DB" => y = x
      BY OutPartsByKey DEF x
    <2>3. \A d : SaidBy(p, n, "DB", d) = x
      BY <1>7, <2>1, <2>2
    <2> QED BY <1>5, <2>1, <2>3 DEF SetBy, Cfg
  <1>12. \A key, on : Flag(key, on).key = key /\ (on \in BOOLEAN => on = (Flag(key, on).val \notin Zeros))
    BY ConnectAssumption DEF Flag, Part, OneDigit
  <1>13. q.unsigned_promotion = c.unsigned_promotion
    <2> DEFINE x == Flag("UNSIGNED_PROMOTION", c.unsigned_promotion)
    <2>1. x \in OutParts(c) /\ x.key = "UNSIGNED_PROMOTION" /\ c.unsigned_promotion = (x.val \notin Zeros)
      BY <1>6, <1>12 DEF OutParts, FlagParts
    <2> HIDE DEF x
    <2>2. \A y \in OutParts(c) : y.key = "UNSIGNED_PROMOTION" => y = x
      BY OutPartsByKey DEF x
    <2>3. \A d : SaidBy(p, n, "UNSIGNED_PROMOTION", d) = x
      BY <1>7, <2>1, <2>2
    <2> QED BY <1>5, <2>1, <2>3 DEF SetRest
  <1>14. q.timestamp_as_is = c.timestamp_as_is
    <2> DEFINE x == Flag("TIMESTAMP_AS_IS", c.timestamp_as_is)
    <2>1. x \in OutParts(c) /\ x.key = "TIMESTAMP_AS_IS" /\ c.timestamp_as_is = (x.val \notin Zeros)
      BY <1>6, <1>12 DEF OutParts, FlagParts
    <2> HIDE DEF x
    <2>2. \A y \in OutParts(c) : y.key = "TIMESTAMP_AS_IS" => y = x
      BY OutPartsByKey DEF x
    <2>3. \A d : SaidBy(p, n, "TIMESTAMP_AS_IS", d) = x
      BY <1>7, <2>1, <2>2
    <2> QED BY <1>5, <2>1, <2>3 DEF SetRest
  <1>15. q.conn_mode = c.conn_mode
    <2> DEFINE x == Flag("CONN_MODE", c.conn_mode)
    <2>1. x \in OutParts(c)
      BY DEF OutParts, FlagParts
    <2>4. x.key = "CONN_MODE"
      BY <1>12
    <2>5. c.conn_mode = (x.val \notin Zeros)
      BY <1>6, <1>12
    <2> HIDE DEF x
    <2>2. \A y \in OutParts(c) : y.key = "CONN_MODE" => y = x
      BY OutPartsByKey DEF x
    <2>3. \A d : SaidBy(p, n, "CONN_MODE", d) = x
      BY <1>7, <2>1, <2>2, <2>4
    <2>6. q.conn_mode = (x.val \notin Zeros)
      <3>1. q.conn_mode = (SaidBy(p, n, "CONN_MODE", [val |-> Counted(e.conn_mode)]).val \notin Zeros)
        BY <1>5 DEF SetBy, Cfg
      <3> DEFINE s == SaidBy(p, n, "CONN_MODE", [val |-> Counted(e.conn_mode)])
      <3>2. s = x
        BY <2>3
      <3> HIDE DEF s
      <3>3. q.conn_mode = (s.val \notin Zeros)
        BY <3>1 DEF s
      <3> QED BY <3>2, <3>3
    <2> HIDE DEF x
    <2> DEFINE on == x.val \notin Zeros
    <2>7. q.conn_mode = on /\ c.conn_mode = on
      BY <2>5, <2>6
    <2> HIDE DEF on
    <2> QED BY <2>7
  <1>16. q.url = c.url
    <2>1. q.url = SaidBy(p, n, "URL", [val |-> e.url]).val
      BY <1>5 DEF SetBy, Cfg
    <2>2. CASE c.backend = "websocket"
      <3> DEFINE x == Part("URL", "braced", c.url, 0)
      <3>1. x \in OutParts(c) /\ UrlParts(c) = {x} /\ x.key = "URL" /\ x.val = c.url
        BY <1>8, <2>2 DEF OutParts, UrlParts
      <3> HIDE DEF x
      <3>2. \A y \in OutParts(c) : y.key = "URL" => y = x
        BY <3>1, OutPartsByKey
      <3>3. SaidBy(p, n, "URL", [val |-> e.url]) = x
        BY <1>7, <3>1, <3>2
      <3> QED BY <2>1, <3>1, <3>3
    <2>3. CASE c.backend # "websocket"
      <3>1. \A y \in OutParts(c) : y.key # "URL"
        BY <2>3, OutPartsByKey DEF UrlParts
      <3>2. SaidBy(p, n, "URL", [val |-> e.url]) = [val |-> e.url]
        BY <1>7, <3>1
      <3>3. q.url = e.url
        BY <1>9, <2>1, <3>2, Zenon
      <3> QED BY <1>4, <1>6, <2>3, <3>3 DEF Reparsable
    <2> QED BY <2>2, <2>3
  <1>17. q.compression = c.compression
    <2> DEFINE d == [val |-> e.compression]
    <2>1. q.compression = Compressed(SaidBy(p, n, "COMPRESSION", d).val)
      BY <1>5 DEF SetBy, Cfg
    <2>2. CASE c.compression # "unset"
      <3> DEFINE x == Part("COMPRESSION", "digits", c.compression, 0)
      <3>1. x \in OutParts(c) /\ ZipParts(c) = {x} /\ x.key = "COMPRESSION" /\ x.val = c.compression
        BY <1>8, <2>2 DEF OutParts, ZipParts
      <3> HIDE DEF x
      <3>2. \A y \in OutParts(c) : y.key = "COMPRESSION" => y = x
        BY <3>1, OutPartsByKey
      <3>3. SaidBy(p, n, "COMPRESSION", d) = x
        BY <1>7, <3>1, <3>2
      <3>4. Compressed(c.compression) = c.compression
        BY <1>6, <2>2 DEF Compressed
      <3> QED BY <2>1, <3>1, <3>3, <3>4
    <2>3. CASE c.compression = "unset"
      <3>1. \A y \in OutParts(c) : y.key # "COMPRESSION"
        BY <2>3, OutPartsByKey DEF ZipParts
      <3>2. SaidBy(p, n, "COMPRESSION", d) = d
        BY <1>7, <3>1
      <3>3. d.val = ""
        BY <1>6, <2>3
      <3>4. Compressed("") = "unset"
        BY DEF Compressed
      <3> HIDE DEF d
      <3> QED BY <2>1, <2>3, <3>2, <3>3, <3>4
    <2> QED BY <2>2, <2>3
  <1>18. q.col_bind = c.col_bind
    <2>1. q.col_bind = SaidBy(p, n, "CHARSET_FOR_COL_BIND", [val |-> b.col_bind]).val
      BY <1>5 DEF SetRest
    <2>2. CASE c.col_bind # ""
      <3> DEFINE x == Part("CHARSET_FOR_COL_BIND", "value", c.col_bind, 0)
      <3>1. x \in OutParts(c) /\ ColParts(c) = {x} /\ x.key = "CHARSET_FOR_COL_BIND" /\ x.val = c.col_bind
        <4>1. ColParts(c) = {x}
          BY <2>2 DEF ColParts
        <4>2. x.key = "CHARSET_FOR_COL_BIND" /\ x.val = c.col_bind
          BY <1>8
        <4> HIDE DEF x
        <4>3. x \in OutParts(c)
          BY <4>1 DEF OutParts
        <4> QED BY <4>1, <4>2, <4>3
      <3> HIDE DEF x
      <3>2. \A y \in OutParts(c) : y.key = "CHARSET_FOR_COL_BIND" => y = x
        BY <3>1, OutPartsByKey
      <3>3. SaidBy(p, n, "CHARSET_FOR_COL_BIND", [val |-> b.col_bind]) = x
        BY <1>7, <3>1, <3>2
      <3> QED BY <2>1, <3>1, <3>3
    <2>3. CASE c.col_bind = ""
      <3>1. \A y \in OutParts(c) : y.key # "CHARSET_FOR_COL_BIND"
        BY <2>3, OutPartsByKey DEF ColParts
      <3>2. SaidBy(p, n, "CHARSET_FOR_COL_BIND", [val |-> b.col_bind]) = [val |-> b.col_bind]
        BY <1>7, <3>1
      <3>3. q.col_bind = b.col_bind
        BY <1>9, <2>1, <3>2, Zenon
      <3> QED BY <1>6, <2>3, <3>3
    <2> QED BY <2>2, <2>3
  <1>19. q.param_bind = c.param_bind
    <2>1. q.param_bind = SaidBy(p, n, "CHARSET_FOR_PARAM_BIND", [val |-> b.param_bind]).val
      BY <1>5 DEF SetRest
    <2>2. CASE c.param_bind # ""
      <3> DEFINE x == Part("CHARSET_FOR_PARAM_BIND", "value", c.param_bind, 0)
      <3>1. x \in OutParts(c) /\ ParamParts(c) = {x} /\ x.key = "CHARSET_FOR_PARAM_BIND" /\ x.val = c.param_bind
        <4>1. ParamParts(c) = {x}
          BY <2>2 DEF ParamParts
        <4>2. x.key = "CHARSET_FOR_PARAM_BIND" /\ x.val = c.param_bind
          BY <1>8
        <4> HIDE DEF x
        <4>3. x \in OutParts(c)
          BY <4>1 DEF OutParts
        <4> QED BY <4>1, <4>2, <4>3
      <3> HIDE DEF x
      <3>2. \A y \in OutParts(c) : y.key = "CHARSET_FOR_PARAM_BIND" => y = x
        BY <3>1, OutPartsByKey
      <3>3. SaidBy(p, n, "CHARSET_FOR_PARAM_BIND", [val |-> b.param_bind]) = x
        BY <1>7, <3>1, <3>2
      <3> QED BY <2>1, <3>1, <3>3
    <2>3. CASE c.param_bind = ""
      <3>1. \A y \in OutParts(c) : y.key # "CHARSET_FOR_PARAM_BIND"
        BY <2>3, OutPartsByKey DEF ParamParts
      <3>2. SaidBy(p, n, "CHARSET_FOR_PARAM_BIND", [val |-> b.param_bind]) = [val |-> b.param_bind]
        BY <1>7, <3>1
      <3>3. q.param_bind = b.param_bind
        BY <1>9, <2>1, <3>2, Zenon
      <3> QED BY <1>6, <2>3, <3>3
    <2> QED BY <2>2, <2>3
  <1>20. q.driver = c.driver /\ q.dsn = c.dsn /\ q.backend = c.backend
    BY <1>5, <1>6 DEF SetRest
  <1>21. q.product = c.product
    <2>1. \A j \in 1..n : p[j] \in OutParts(c)
      BY <1>3, LenProperties DEF Lists, n
    <2>2. \A j \in 1..n : p[j].key # "CUSTOMPRODUCT"
      BY <2>1, OutPartsByKey
    <2> QED BY <1>4, <1>5, <2>2 DEF SetRest, Reparsable
  <1> QED BY <1>2, <1>10, <1>11, <1>13, <1>14, <1>15, <1>16, <1>17, <1>18, <1>19, <1>20, <1>21 DEF q, p

\* What is left empty behind the URL, the URL does not tell either.
LEMMA UrlIsExhausted ==
  ASSUME NEW x, DOMAIN x = DOMAIN conn_cfg_release
  PROVE  LET c == _conn_fill_cfg_from_url(x)
         IN  c.url # NoUrl => (c.ip = "" => c.url.host = "") /\ (c.port = 0 => c.url.port = 0)
  <1>1. {"uid", "pwd", "db", "ip", "port", "url"} \subseteq DOMAIN x
    BY DEF conn_cfg_release
  <1>2. CASE x.url = NoUrl
    BY <1>2 DEF _conn_fill_cfg_from_url
  <1>3. CASE x.url # NoUrl
    <2> DEFINE c == _conn_fill_cfg_from_url(x)
    <2>1. /\ c.url = x.url
          /\ c.ip = (IF x.ip = "" THEN x.url.host ELSE x.ip)
          /\ c.port = (IF x.port = 0 THEN x.url.port ELSE x.port)
      BY <1>1, <1>3 DEF _conn_fill_cfg_from_url
    <2> HIDE DEF c
    <2>2. c.url # NoUrl => (c.ip = "" => c.url.host = "") /\ (c.port = 0 => c.url.port = 0)
      BY <2>1
    <2> QED BY <2>2 DEF c
  <1> QED BY <1>2, <1>3

\* Filling it in once more, behind what was parsed again, changes nothing.
LEMMA FilledAgain ==
  ASSUME NEW c, NEW q,
         c = [field \in DOMAIN conn_cfg_release |-> c[field]],
         q = [field \in DOMAIN conn_cfg_release |-> q[field]],
         c.db # "", c.url # NoUrl => (c.ip = "" => c.url.host = "") /\ (c.port = 0 => c.url.port = 0),
         q.driver = c.driver, q.dsn = c.dsn, q.backend = c.backend, q.url = c.url,
         q.ip = c.ip, q.port = c.port, q.db = c.db, q.col_bind = c.col_bind, q.param_bind = c.param_bind,
         q.product = c.product, q.unsigned_promotion = c.unsigned_promotion,
         q.timestamp_as_is = c.timestamp_as_is, q.conn_mode = c.conn_mode, q.compression = c.compression
  PROVE  [_conn_fill_cfg_from_url(q) EXCEPT !.uid = c.uid, !.pwd = c.pwd] = c
  <1> DEFINE f == _conn_fill_cfg_from_url(q)
             g == [f EXCEPT !.uid = c.uid, !.pwd = c.pwd]
             D == DOMAIN conn_cfg_release
  <1>1. D = {"driver", "dsn", "backend", "url", "uid", "pwd", "ip", "port", "db", "col_bind", "param_bind", "product",
             "unsigned_promotion", "timestamp_as_is", "conn_mode", "compression"}
    BY DEF conn_cfg_release
  <1> HIDE DEF D
  <1>2. /\ f = [field \in D |-> f[field]]
        /\ f.driver = c.driver /\ f.dsn = c.dsn /\ f.backend = c.backend /\ f.url = c.url
        /\ f.col_bind = c.col_bind /\ f.param_bind = c.param_bind /\ f.product = c.product
        /\ f.unsigned_promotion = c.unsigned_promotion /\ f.timestamp_as_is = c.timestamp_as_is
        /\ f.conn_mode = c.conn_mode /\ f.compression = c.compression
        /\ f.ip = c.ip /\ f.port = c.port /\ f.db = c.db
    <2>1. CASE q.url = NoUrl
      BY <2>1 DEF _conn_fill_cfg_from_url, D
    <2>2. CASE q.url # NoUrl
      <3> DEFINE u == q.url
                 or(a, b) == IF a = "" THEN b ELSE a
                 h == [q EXCEPT !.ip = or(@, u.host), !.port = IF @ = 0 THEN u.port ELSE @,
                                !.uid = or(@, u.user), !.pwd = or(@, u.pass), !.db = or(@, u.path)]
      <3>1. f = h
        BY <2>2 DEF _conn_fill_cfg_from_url
      <3>2. DOMAIN q = D
        BY DEF D
      <3>3. /\ h = [field \in D |-> h[field]]
            /\ h.driver = q.driver /\ h.dsn = q.dsn /\ h.backend = q.backend /\ h.url = q.url
            /\ h.col_bind = q.col_bind /\ h.param_bind = q.param_bind /\ h.product = q.product
            /\ h.unsigned_promotion = q.unsigned_promotion /\ h.timestamp_as_is = q.timestamp_as_is
            /\ h.conn_mode = q.conn_mode /\ h.compression = q.compression
            /\ h.ip = or(q.ip, u.host) /\ h.port = (IF q.port = 0 THEN u.port ELSE q.port) /\ h.db = or(q.db, u.path)
        <4>1. DOMAIN h = D
          BY <3>2
        <4>2. h = [field \in D |-> h[field]]
          BY <4>1
        <4>3. \A field \in D \ {"ip", "port", "uid", "pwd", "db"} : h[field] = q[field]
          BY <3>2
        <4>4. h.ip = or(q.ip, u.host) /\ h.port = (IF q.port = 0 THEN u.port ELSE q.port) /\ h.db = or(q.db, u.path)
          BY <1>1, <3>2
        <4> HIDE DEF h, or
        <4>5. h.driver = q.driver /\ h.dsn = q.dsn /\ h.backend = q.backend /\ h.url = q.url
          BY <1>1, <4>3
        <4>6. h.col_bind = q.col_bind /\ h.param_bind = q.param_bind /\ h.product = q.product
          BY <1>1, <4>3
        <4>7. /\ h.unsigned_promotion = q.unsigned_promotion /\ h.timestamp_as_is = q.timestamp_as_is
              /\ h.conn_mode = q.conn_mode /\ h.compression = q.compression
          BY <1>1, <4>3
        <4> QED BY <4>2, <4>4, <4>5, <4>6, <4>7
      <3>4. or(q.ip, u.host) = c.ip /\ (IF q.port = 0 THEN u.port ELSE q.port) = c.port /\ or(q.db, u.path) = c.db
        BY <2>2
      <3> HIDE DEF h, f
      <3> QED BY <3>1, <3>3, <3>4
    <2> QED BY <2>1, <2>2
  <1> HIDE DEF f
  <1>3. DOMAIN f = D
    BY <1>2
  <1>4. /\ g = [field \in D |-> g[field]]
        /\ \A field \in D \ {"uid", "pwd"} : g[field] = f[field]
        /\ g.uid = c.uid /\ g.pwd = c.pwd
    BY <1>1, <1>3
  <1> HIDE DEF g
  <1>5. ASSUME NEW field \in D PROVE g[field] = c[field]
    <2>1. CASE field \in {"uid", "pwd"}
      BY <1>4, <2>1
    <2>2. CASE field \notin {"uid", "pwd"}
      <3>1. g[field] = f[field]
        BY <1>4, <2>2
      <3>2. f[field] = c[field]
        <4>1. field \in {"driver", "dsn", "backend", "url", "ip", "port", "db", "col_bind", "param_bind", "product",
                         "unsigned_promotion", "timestamp_as_is", "conn_mode", "compression"}
          BY <1>1, <2>2
        <4> QED BY <1>2, <4>1
      <3> QED BY <3>1, <3>2
    <2> QED BY <2>1, <2>2
  <1>6. c = [field \in D |-> c[field]]
    BY DEF D
  <1>7. g = c
    BY <1>4, <1>5, <1>6
  <1> QED BY <1>7 DEF g, f

\* The string handed back by a call is that of the configuration the session goes by, or was
\* cut.
OutInv == Connected /\ ask.fn = "SQLDriverConnect" => out \in {_conn_fill_out_connection_str(cfg), Cut}

LEMMA OutStays ==
  ASSUME IInv, AskedInv, OutInv, [Next]_vars
  PROVE  OutInv'
  <1>1. CASE GetTimezone
    <2>1. CASE GiveUp
      BY <2>1 DEF GiveUp, Return, conn_disconnect, OutInv, Connected
    <2>2. CASE ~GiveUp
      BY <1>1, <2>2 DEF GetTimezone, OutInv
    <2> QED BY <2>1, <2>2
  <1>2. CASE pc' # "idle" \/ taos' = NoSession
    BY <1>2 DEF OutInv, Connected
  <1>3. CASE UNCHANGED <<pc, ask, cfg, taos, out>>
    BY <1>3 DEF OutInv, Connected
  <1>4. ASSUME NEW a, SQLDriverConnect(a) \/ SQLConnect(a) PROVE pc' # "idle" \/ taos' = NoSession
    <2>1. PICK parsed, fails : Call(a, parsed, fails)
      BY <1>4 DEF SQLDriverConnect, SQLConnect
    <2> QED BY <2>1 DEF Call
  <1>5. ASSUME Driver PROVE GetTimezone \/ pc' # "idle" \/ taos' = NoSession
    <2>1. CASE Fails /\ pc \in Before
      BY <2>1 DEF Fails, Return, conn, IInv, SessionInv, Before, After
    <2>2. CASE GiveUp \/ (Return("error") /\ conn_disconnect)
      BY <2>2 DEF GiveUp, conn_disconnect
    <2> QED BY <1>5, <2>1, <2>2 DEF Driver, InitDriver, FillFromUrl, TaosConnect, SetConnMode, SelectDb, GetConfigs,
                                    SetupIconvs, Proceed, Goto, Before
  <1>6. SQLDisconnect => taos' = NoSession
    BY DEF SQLDisconnect, conn_disconnect
  <1>7. _conn_check_alive \/ Lose \/ OtherHandle \/ UNCHANGED vars => UNCHANGED <<pc, ask, cfg, taos, out>>
    BY DEF _conn_check_alive, Lose, OtherHandle, vars, conn
  <1> QED BY <1>1, <1>2, <1>3, <1>4, <1>5, <1>6, <1>7 DEF Next

\* Of a string that parses, what is handed back parses too and, with user and password, leads
\* to the same configuration, if the texts it tells are what the scanner reads (Reparsable: a
\* database called 123 is not, conn.c:789).
THEOREM ToldIsReadBack ==
  ASSUME NEW str, Known(str), ~conn_parser_fails(str)
  PROVE  LET c == _conn_fill_cfg_from_url(conn_parser_parse(str))
             p == _conn_fill_out_connection_str(c)
         IN  Reparsable(c) =>
               /\ ~conn_parser_fails(p)
               /\ [_conn_fill_cfg_from_url(conn_parser_parse(p)) EXCEPT !.uid = c.uid, !.pwd = c.pwd] = c
  <1> DEFINE x == conn_parser_parse(str)
             c == _conn_fill_cfg_from_url(x)
             p == _conn_fill_out_connection_str(c)
             q == conn_parser_parse(p)
  <1>1. Kept(x, str)
    BY ParsedKeeps
  <1> HIDE DEF x
  <1>2. Kept(c, str)
    BY <1>1, FillKeeps
  <1>3. DOMAIN x = DOMAIN conn_cfg_release
    BY <1>1 DEF Kept
  <1>4. c.url # NoUrl => (c.ip = "" => c.url.host = "") /\ (c.port = 0 => c.url.port = 0)
    BY <1>3, UrlIsExhausted
  <1> HIDE DEF c
  <1>5. c = [field \in DOMAIN conn_cfg_release |-> c[field]]
    BY <1>2 DEF Kept
  <1>6. ASSUME Reparsable(c)
        PROVE  ~conn_parser_fails(p) /\ [_conn_fill_cfg_from_url(q) EXCEPT !.uid = c.uid, !.pwd = c.pwd] = c
    <2>1. ~conn_parser_fails(p)
      BY <1>2, <1>6, OutParses
    <2>2. /\ q = [field \in DOMAIN conn_cfg_release |-> q[field]]
          /\ q.driver = c.driver /\ q.dsn = c.dsn /\ q.backend = c.backend /\ q.url = c.url
          /\ q.ip = c.ip /\ q.port = c.port /\ q.db = c.db /\ q.col_bind = c.col_bind /\ q.param_bind = c.param_bind
          /\ q.product = c.product /\ q.unsigned_promotion = c.unsigned_promotion
          /\ q.timestamp_as_is = c.timestamp_as_is /\ q.conn_mode = c.conn_mode /\ q.compression = c.compression
      BY <1>2, <1>6, OutIsRead
    <2>3. c.db # ""
      BY <1>6, KindsTold
    <2> HIDE DEF q, p
    <2> QED BY <1>4, <1>5, <2>1, <2>2, <2>3, FilledAgain
  <1> QED BY <1>6 DEF x, c

\* Whatever the string, the data source and the URL held, of the configurations the scanner
\* can read again (Reparsable), and unless the buffer was too small for it: the string handed
\* back by a call that connected says all of it but user and password, so that an application
\* that saves it connects the same way the next time.
THEOREM ToldReconnects == Spec => []OutStringReconnects
  <1>1. Init => OutInv
    BY DEF Init, OutInv, Connected
  <1>2. IInv /\ AskedInv /\ OutInv => OutStringReconnects
    <2> SUFFICES ASSUME IInv, AskedInv, OutInv, Connected, ask.fn = "SQLDriverConnect",
                        out # Cut, Reparsable(cfg)
                 PROVE  /\ ~conn_parser_fails(out)
                        /\ [_conn_fill_cfg_from_url(conn_parser_parse(out)) EXCEPT !.uid = cfg.uid, !.pwd = cfg.pwd] = cfg
      BY DEF OutStringReconnects
    <2>1. ask \in First \cup Again /\ Given(ask) /\ cfg = Filled(ask)
      BY DEF AskedInv, Connected
    <2>2. Known(ask.str) /\ ~conn_parser_fails(ask.str)
      BY <2>1, CallsAreKnown DEF Given
    <2>3. cfg = _conn_fill_cfg_from_url(conn_parser_parse(ask.str))
      BY <2>1 DEF Filled, Parsed
    <2>4. out = _conn_fill_out_connection_str(cfg)
      BY DEF OutInv
    <2> QED BY <2>2, <2>3, <2>4, ToldIsReadBack
  <1> QED BY <1>1, <1>2, InitAsked, AskedStays, OutStays, Invariance, PTL DEF Spec
=============================================================================
