# TLA+ verification of the TDengine ODBC driver

These modules model the stateful core of taos-connector-odbc: how the process
chooses its client library, how a handle gets the session its connection string
asks for, how handles live and die under concurrent API calls, what a statement
executes, how parameters are bound, converted and sent in batches, how blocks of rows
from the server become rowsets of the application, how columns are described and
converted, how `SQLGetData` hands a value out piece by piece, what the catalog functions
list, and how the messages of a topic are read and committed.  Each module is checked by
TLC on small instances; the results named below are also proved by TLAPS for every value
of the constants.

## 1. The system

An ODBC driver is a library that a driver manager loads.  It has no threads, no
timers and no persistent state of its own: every step is a step of an application
thread inside an API call.  What is shared between threads is memory: one word for
the driver type, the reference counts and counters of the handles, and the plain
lists that hang off them.

| Component | Source | State | Operations | Hard part |
|---|---|---|---|---|
| driver choice | `core/conn.c` | `s_driver_state` | `conn_init_driver_type` | lock-free; failure and retry; a spinning caller |
| connection | `core/conn.c`, `parser/conn_parser.y` | `conn->cfg`, TAOS handle, server's charset and time zone, `dead` | SQLConnect, SQLDriverConnect, SQLDisconnect | three sources that override each other; six steps after the connect that may fail; a handle used again |
| environments, connections, statements, descriptors | `core/env.c`, `conn.c`, `desc.c`, `stmt.c`, `odbc.c` | `refc`, parents, `conns`, `descs`, `stmts`, `nr_stmts`, association lists, `outstandings` | SQLAllocHandle, SQLFreeHandle, connect, disconnect, descriptor attributes | concurrent calls; release order; assertions that abort the process |
| execution | `core/stmt.c`, `core/tsdb.c` | `sqls`, `current_sql`, `base`, result, stmt2 | SQLPrepare, SQLExecute, SQLExecDirect, SQLMoreResults, SQLNumParams, closing | which calls are legal in which state; who owns a result |
| parameters | `core/stmt.c`, `core/desc.c` | APD/IPD records, `params_bind_meta`, buffers | SQLBindParameter, SQL_RESET_PARAMS, conversion | three descriptions of one parameter; arrays in batches; shared descriptors |
| fetching | `core/stmt.c` `_stmt_fetch*`, `core/tsdb.c` | block, `pos`, `nr`, `eof`; rowset, statuses, row count | SQLFetch, SQLFetchScroll(NEXT) | rowsets and blocks overlap; a failure in mid-rowset |
| description and conversion | `core/stmt.c`, `core/desc.c` | IRD | SQLDescribeCol, SQLColAttribute, SQLBindCol | two tables that must agree |
| data retrieval | `core/stmt.c` `_stmt_get_data_*` | `get_data_ctx` | SQLGetData, bound columns | a value read over several calls, encodings, a context that outlives its value |
| catalog | `core/tables.c`, `columns.c`, `primarykeys.c`, `typesinfo.c`, `utils/utils.c` | nested result cursors | SQLTables, SQLColumns, SQLPrimaryKeys, SQLGetTypeInfo | a cursor over cursors while tables are dropped; patterns |
| topic consumer | `core/topic.c` | consumer, message, position | the `!topic` statement, fetch, commit | poll, commit and the end of a message |
| diagnostics | `core/errs.c` | error lists | SQLGetDiagRec, SQLGetDiagField | records are pooled and reused |
| charsets, thread-local data | `core/charset.c`, `tls.c` | cached iconv descriptors | conversion lookup | caches per connection and per thread |
| SQL and URL parsers, setup dialog, taoswsd | `src/parser`, `core/setup.c`, `taosws/server` | none shared | | not modelled: see section 7 |

How they meet: an entry point of `odbc.c` takes a reference on its handle, calls
the component and drops the reference.  A statement reaches the server through a
`stmt_base_t` (tsdb, topic or a catalog source), whose `fetch_row` and `get_data`
are what fetching and data retrieval call.  `SQLFetch` fills bound columns through
the very context that `SQLGetData` uses.  What a statement executes fills the IRD, which
an application reads to bind its columns; what `SQLBindParameter` leaves in three places
is what `SQLExecute` converts by.

### What makes each part correct

- driver choice: one initializer at a time, a loaded library is never replaced, each
  caller is told the truth, nobody spins for ever;
- connection: the session is the one asked for, no session is left that no handle holds, what
  is known of the server is that of the server connected to, and the string handed back
  leads to the same session;
- handles: nothing reachable is freed, the counters that refuse a free are exact, no
  assertion of a release path aborts the process, nothing leaks;
- execution: what was prepared is what is executed, the statements of a text are executed one
  by one, a result has one owner, the IRD is that of the open result;
- parameters: what the server gets for a row means what the application bound for it; the rows
  it gets are the first rows of the arrays, each once, whole and in its own table, and the
  call tells how many they are; the application's arrays are left alone;
- fetching: the rowsets are the result, in order, without loss or repetition, with true
  statuses, and the end is final;
- description: what an application allocates and binds by the IRD brings every value whole;
- data retrieval: the pieces of a value are the value, the lengths told are right, a
  loop until SQL_NO_DATA ends, and only a value that exists is answered;
- catalog: what matches is listed, in order and to the end, and SQLColumns agrees with the IRD
  of a select;
- topics: what is committed has been read, what is not committed comes again, rows appear
  under the columns of their topic, and the limits end the reading.

The hazards behind these, with their lines, are listed in PROJECT.json.

## 2. The modules

| Module | What it is | Source |
|---|---|---|
| `DriverCell` | abstract: a cell written once, with calls that overlap | |
| `DriverInit` | the protocol on `s_driver_state`; implements `DriverCell` | `conn.c` `conn_init_driver_type` |
| `Connect` | from a connection string to a session, and back | `conn.c`, `conn_parser.y`, `conn_parser.l`, `odbc.c` |
| `SessionProofs` | the theorems of `DriverInit` and `Connect` | |
| `Handles` | lifecycle of the four kinds of handles under concurrent calls | `env.c`, `conn.c`, `desc.c`, `stmt.c`, `odbc.c` |
| `HandlesProofs` | its theorems | |
| `StmtExec` | what a statement executes, under the driver manager's states | `stmt.c`, `tsdb.c`, `odbc.c` |
| `ParamConv` | the tables and functions of parameter conversion, as operators | `stmt.c`, `tsdb.c` |
| `Params` | binding, sharing a descriptor, one execute; uses `ParamConv` | `stmt.c` |
| `ParamsProofs` | its theorems | |
| `ParamBatch` | SQLExecute with arrays of parameters | `stmt.c`, `tsdb.c` |
| `ParamBatchProofs` | its theorems | |
| `RowCursor` | abstract: a forward-only cursor over one result | |
| `Fetch` | from blocks to rowsets; implements `RowCursor` | `stmt.c`, `tsdb.c` |
| `ColumnMeta` | the tables of column types and conversions, as operators | `stmt.c`, `desc.c`, `tsdb.c`, `columns.c`, `primarykeys.c`, `typesinfo.c` |
| `Describe` | the IRD of a result and what is bound and read by it; uses `ColumnMeta` | `stmt.c`, `topic.c` |
| `ResultProofs` | theorems of `Fetch` and `Describe` | |
| `GetData` | piecewise retrieval and bound columns | `stmt.c` |
| `GetDataProofs` | its theorems | |
| `Wild` | the wildcard compiler and matcher, as operators | `utils.c` |
| `Catalog` | the catalog functions over a server whose tables are dropped; uses `Wild`, `ColumnMeta` | `tables.c`, `columns.c`, `primarykeys.c`, `typesinfo.c` |
| `StatementProofs` | theorems of `StmtExec`, and of `Catalog` with `Wild` | |
| `TopicLog` | abstract: an at-least-once reader of queues | |
| `Topic` | a topic statement from subscription to close; implements `TopicLog` | `topic.c`, `stmt.c` |
| `TopicProofs` | its theorems | |
| `MC*` | the instances TLC checks | |

The lines each definition stands for are in PROJECT.json, under "map".

**DriverInit.** One action is one atomic operation on the shared word, or the library
call between two of them.  `stage[t]` is the place of thread `t` in the function: `cas`
(the compare-and-swap), `options` (inside `taos_options`), `publish` and `restore` (the
two stores), `spin`, `compare`.  The recursion after a failed initializer is the step
from `spin` to `cas`.  `prev` is the local variable: the comparison uses the value
read, not the word.  `lib` is the library's own choice, which the driver cannot read.

**Connect.** One connection handle is followed over many connects, as `conn->cfg` and the rest of
`conn_t` are.  A connection string is the sequence of its `key=value` parts as the scanner delivers
them, each with the token its value makes for the scanner (`Kind`: a value, digits, in braces, or
`other` where it is none of these, as a text with a space in it): `Follows` and `Written` are
the grammar of `conn_parser.y`, `Set` what each rule assigns.  The text of a data source has no token
until `_conn_fill_out_connection_str` writes it back, so that what is handed back may be one the scanner
refuses.  A flag of a data source is set by the texts 1 to 9 (`conn.c:904-915` wants one character and
asks `atoi`).  `Dsn*` are the steps of
`_conn_cfg_init_by_dsn`, from one entry to the next until one is not valid.  A connect goes
through `driver`, `url`, `connect`, `mode`, `select`, `configs`, `iconvs`, `timezone`; at each the
step may fail, and `GiveUp` is what the code does then: `conn_disconnect` if there is a session.
`s_charset` outlives a disconnect, as in the code.  `out` is the string handed
back, `Cut` one that did not fit the application's buffer.  The environment is `Lose` (the server drops the session) and `OtherHandle` (another
connection of the process chooses the driver type first).  `taos_connect_with` answers with a session
for what it was given, or fails.

**Handles.** Every place that holds a counted reference is a slot of `ref`: the
application's handle (`App`, the `refc = 1` of creation), the argument of a call in
progress (`Api`), the parent pointer (`Up`), `associated_ARD` and `associated_APD`.
`Acquire` is any `X_ref`, `Drop` any `X_unref`; the unref that reaches zero makes its
thread the `releaser`, which then goes through `_X_release` step by step before the call
goes on, nested releases first.  A call is a sequence of steps: `Enter` (the reference of
the entry point), the function's own steps, `leave` (the reference dropped), `return`.
`conn_create`, `desc_create` and `stmt_create` are split where another thread could look
in between; they differ in order, as the code does.

The driver relies on its callers for two things, stated in `Enter`: a handle is
ended by its only user, and the calls that write a connection's plain lists
(`conn->stmts`, `nr_stmts`, the association lists) are not made at the same time on
one connection.  Both are what the driver manager's handle locking gives.

**StmtExec.** `stmt_t` is one record, and a function of the driver is an operator from a record to
a record, in the order in which the C function changes it; `ret` is how the last of them ended
(`crash` and `abort` end the process), `did` what this call had the server execute.  `how` names the
step of a call that fails (`Failures`: preparing, reading the fields of parameters, executing,
describing, ...).  `dm` is the driver manager as far as it decides which calls get through: what is
prepared, whether a result is open, whether the last SQLMoreResults failed on it.  `live` and
`handles` count what the client library holds for the statement.  Three variables record the past:
`intact` (nothing has been done since SQLPrepare that may lose the statement), `ran` and `refused`
(the statements of the text that were sent, and those that a call refused to send).  The parser is
taken by its result: a text is refused, or is a sequence of statements.

**ParamConv, Params.** A bound parameter is described by a record of the APD, one of the IPD, and the
functions kept in `params_bind_meta`; `SQLBindParameter` writes the three one after the other and may
fail between any two.  `cur` is the APD in use, the statement's own or one shared with another
statement.  `ParamConv` holds the tables `_sqlc_sql_map` and `Lookup` and, for each entry, what is
checked, guessed and converted.  Memory is a sequence of cells and a value takes as many of them as
its type is wide, so that an array read with the wrong width gives garbage.  A byte is scaled to two
bits: TINYINT is -2..1, SMALLINT -8..7, INT -128..127.  `ServerReads` is the server's reading of what
it is given, `Means` what the application's value is in the server's type: this last is the
reference definition the conversions are compared with.  A double fits an integer type if the integers
on both sides of it do (`Spans`); what a cast beyond the type's range gives is `Garbage`.

**ParamBatch.** The actions are the steps of `_stmt_execute_with_param_state` for an insert
statement: a batch begins (`SQLExecute`, the end of `Exec`), a column is prepared and
converted (`SubTblBinds`, `ConvertCol`), the batch is counted, packed and bound (`Bind`) and
executed (`Exec`); each has its failures as actions of their own, `ExecUnanswered` the one
where the server has the rows and the call fails all the same.  `nr_batch_size` is cut in the
middle of this, by a change of sub-table or by a bad value that a later column finds.  A value
is the number of its row: `cells` tells which row's value is at which place of the driver's
buffers (`Null`, or `Stale` for what an earlier batch has left there), and `Read` is the server's
reading of a bound column, which counts on values of variable width being packed.  The
application chooses its arrays anew for every call; they are dropped when it is over, so that no
two calls are told apart by data nobody reads.  `stmt->strict` is set when a statement is made
(`stmt.c:290`) and never cleared, so that a conversion with a warning is a failure.  A parameter
that is bound in the application's own array is modelled as one that is converted: the buffer
then begins at the batch, and the place of a row is the same.

**Fetch.** `_fetch_row` is `NextInBlock`, `FetchBlock`, `FetchEnd` or `FetchFail`; the
loop of `_stmt_fetch_rows` is `pc` going from `row` to `fill` and back; the end of
`_stmt_fetch_x`, which writes the row count and SQL_ROW_NOROW, is `Return`.  A row is its
number, `buffer` tells which row is in which place of the application's arrays, and
`Outcome` fixes how the conversion of each row ends.

**ColumnMeta, Describe.** `ColumnMeta` translates the table behind the IRD (`_col_bind_map`), the type
and length of every catalog column, and the outcome of every conversion of a column into a C type.
An integer is its sign and the number of its bits, a floating-point number its significant digits, a
time its sign, seconds and number of fractional digits, a text its length.  `Describe` is an
application that does what the IRD tells it: it asks, allocates and binds, then reads.  One
fractional digit stands for three.  `Storable` says what a column of a type can hold, `Arriving`
which of the values come for a column: no text longer than its field, no fraction of a second
as long as a second, and an integer of a catalog fits the type it is described as, though it comes in
a longer one.  The exception is the column AUTO_UNIQUE_VALUE of SQLGetTypeInfo (`raw`), which gives
INT64_MIN (`NULL_FIELD`) for a type that has none.

**GetData.** The copy functions are operators from a context and a buffer length to the
context after the call, the return code, the bytes copied and the length told.  A
character is the sequence of its bytes in the target encoding (`Widths`), and a byte is
named by row, column, character and place, so that every byte handed to the application
tells where it comes from.  `residual` is the converted part of a character that did
not fit.  `Careful` states what an application must do to be safe from two defects
(section 4): read a text it has started to its end, and not repeat a call that failed to get at
the value.

**Wild, Catalog.** A name and a pattern are sequences of characters.  `Wild` compiles a
pattern as `utils.c` does.  A node is matched from behind: `_wild_match_*` gives the places of the name from
which the node and all behind it match, where the code asks for one place at a time.  `Like` is what
ODBC means by a pattern.  In `Catalog` a result of the server is a cursor over rows that ends, or fails for
ever; a query is answered from one snapshot, and a table may be dropped between any two queries
(`Drop`).  `pc` is the place of the driver in a walk from one table to the next; the steps under
`Driver` are those of a call under way.  A cursor whose query failed is
`Closed` for good: the driver keeps the failed result.  Where `desc` fails before there is a result at all
(`tsdb.c:640`), `Closed` stands for what the client library answers for a NULL result.  `pos` is the place in `typesinfo`, which no call resets.

**Topic.** The server's part is external: for each queue (a vgroup of a topic) a log of
messages, of which the number of rows and the columns matter, and the offset the consumer group has
committed.  Each message has its own columns (`ColumnsOf`): in a topic of a database they differ.  `polled` is the place of the consumer, `res` and `used` the message being read and how
far.  One turn of the loop in `_poll` is `PollNoData`, `Deliver` or `DeliverFails` (a poll that
brings nothing changes nothing); `_fetch_row` is `FetchRow`, `EndOfMessage` or
`CommitFails`; the rowset loop around it is `pc = "fetch"` until `Hand` has filled the
rowset or `FetchReturns`.  The topic name of the last message outlives the subscription, and so does
`do_not_commit`, as in the code.  `Crash` is the end of the process at any step: it keeps what
the server has and loses the rest.  `fetched` and `told` record what has ever been put in a rowset
and what SQLFetch has ever returned with success.  `Careful` confines an application to the way
`tests/c/c_test.c` reads a topic: fetch until SQL_NO_DATA, then SQLMoreResults, and close when
it says SQL_NO_DATA or after an error.  The consumer reads from the start of a topic for a new
group and does not commit on its own (`auto.offset.reset=earliest`, `enable.auto.commit=false`),
and no other consumer shares its group.

**Proof modules.** Each holds the theorems of one module, or of two, with the inductive invariants they rest on:
section 5.

## 3. The runs

| Run | Instance | Checks | Shows |
|---|---|---|---|
| `driver_init` | 3 threads, 2 calls each, 2 types | OneInitializer, ImplementsCell, EveryCallReturns | an initializer that fails, a spinner it wakes, a third thread slipping in between: the protocol is a write-once cell |
| `connect` | 8 data sources, 3 servers, every string of a DSN or driver and up to three of 16 parts, 4 strings to connect again | SessionsClosed, SessionIsAsked, CharsetIsServers, OutStringReconnects | string over data source over URL; every step failing; a handle connected again, to another server; a string handed back whole or cut |
| `handles` | 2 connections, 2 statements, 2 descriptors, 3 threads | NoDanglingRef, CountersExact, AssociationsAgree, ReleaseAssertionsHold, NothingLeaks | allocation, connection, association, disconnection and freeing interleave safely |
| `stmt` | 9 texts, 2 parameters | ResultsOwned, PreparedIsExecuted, BatchInOrder, IRDDescribes | plain and parameterised statements, batches, a topic, texts in error, any step failing, in any order the driver manager lets through |
| `stmt_dm` | as above | DMHasChecked, violated | the finding of section 4 |
| `params` | every pair of C and SQL types, every server type, values at the edges of each width, arrays of 2 | BindingAgrees, SentIsBound, FitsIsAccepted, InputKept | rebinding, failed binding, a shared descriptor, a leftover errno: what is sent means what was bound |
| `param_batch` | 3 parameters (sub-table, fixed, variable), up to 3 rows, batches of 2 | RowsArriveWhole, CountTells, EveryExecuteReturns | batches cut by their limit, by a table, by a bad value in an early or a late column, nulls among packed values, servers that fail before or after taking a batch |
| `fetch` | 4 rows, blocks up to 3, rowsets up to 4 | StatusArrayTells, ImplementsCursor | rowsets end inside blocks and blocks inside rowsets; a rowset may take three blocks; rows that fail and servers that fail |
| `describe` | every type at the edges of every width, every source (with the INT64_MIN of SQLGetTypeInfo), precision and flag | FetchedAsDescribed, TextFitsDisplay | an application that allocates and binds by the IRD gets its values whole |
| `get_data` | 6 columns (one of each kind), 6 buffer lengths, 2 rows | PiecesAreTheValue, StrLenIsRemaining, OnlyValuesAreAnswered, BoundIsValue, LoopEnds | a careful application gets every value whole |
| `catalog` | every setting of the three flags, 5 tables of every kind in 3 databases, one of which is dropped | ListedInOrder, EndIsComplete, ColumnsAgreeWithSelect, EveryCallReturns | every dispatch of SQLTables, the walks of SQLColumns and SQLPrimaryKeys, with queries that fail |
| `topic` | 2 vgroups of one topic, 1 of a database whose messages have different columns, messages of 1 and 2 rows, rowsets of 1 or 2, a limit of 3 records | TraversedOneByOne, DescribedOneByOne, ImplementsTopicLog, EveryCallReturns | messages end inside rowsets, topics change, commits and descriptions fail, the process ends and a new subscription goes on |

**Bounds.**

- `driver_init`: two calls per thread let a thread fail and try again while another spins; a third
  call repeats a state up to renaming.
- `connect`: three parts are a key said twice and one between; the two hosts of the strings and the
  default one let a reconnect change server, character set and time zone.  `First` are the calls of a
  fresh handle, in full; `Again` those made later, chosen to differ in whatever may be left over.  Two data sources have texts
  that are not what they seem: a database and a character set of digits, flags of two digits or of none,
  a host that is no FQDN, a database with a space.
- `handles`: handles are freed and reused without limit, so that every lifecycle recurs.  The
  constraint `SmallHeap` keeps the states in which either one connection has everything else doubled
  under two calls at a time, or two connections have one statement and one descriptor under three
  threads: two connections show that descriptors do not cross connections; three threads put a free,
  a call and an allocation at one object.  Names of handles and of threads are interchangeable: the
  symmetry is sound, the run has no liveness property.
- `stmt`: the texts are a query, an insert and a query with a marker each, a batch in which the first, the second
  or the last statement has a result, a topic inside a batch, a marker inside a batch, nothing, and a
  text in error.  Two bound parameters are one too many for each of them.
- `params`: `Values` has every boundary of every width on both sides.  While a descriptor is shared only
  the pairs of `SharedPairs` are bound, with one value each (`FewValues`): what sharing can break is which record is
  used, not which value.  An array that a conversion has spoilt is filled before it is used again.
- `param_batch`: `BatchMax` stands for INT16_MAX (`stmt.c:7911`); with batches of two, three
  rows make a full batch and a second one, a batch that shrinks to one row or to none, and a null that
  moves the value behind it.  A batch keeps nothing of the ones before but `cells` and the counts, so
  that a third batch shows nothing a second one does not.
- `fetch`: a rowset spans three blocks and a block two rowsets.
- `get_data`: the texts have a character of one byte and one of three (a surrogate pair in UTF-16),
  the lengths go from nothing through half a character to everything.
- `catalog`: a drop between queries is the only change; the names include one with a wildcard character
  and one it would match; the patterns are all of at most three characters ending in a wildcard, and
  exact names that no other name continues (section 4 says why).  One column is of a type that
  UNSIGNED_PROMOTION promotes.
- `topic`: a limit of three records lies inside the four messages, so that it is reached between two
  messages and inside one; subscriptions, crashes and failures are not bounded.  A rowset of two rows
  takes in the end of one message and the begin of the next.

**Deadlock.** `driver_init` ends when every thread has used its calls, and `describe` when a
conversion aborts the process: the only runs where the system stops, and the only ones with
CHECK_DEADLOCK FALSE.

**Fairness.** Weak fairness of the steps of the driver inside a call, and nothing else:
the operating system schedules threads, `sched_yield` lets others run, and library calls
return.  No application is assumed to make a call.  In `Topic`, time passes and the steps of the
driver go on, but the server need not deliver a message: it is the limit of seconds that ends a poll.

## 4. Findings and known deviations

*A prepared statement is lost* (`stmt_dm`).  `stmt_execute` says: "NOTE: no need to check whether it's
prepared or not, DM would have already checked" (`stmt.c:8301`).  But the driver loses what the
driver manager takes for prepared.  `_stmt_get_next_sql` clears `current_sql` before it knows of a
next statement (`stmt.c:3583`): after the SQLMoreResults that says SQL_NO_DATA a prepared plain
statement is an empty text, which fails, and one with markers is executed without its parameters.
After a prepared topic has been closed, `tsdb_stmt.current_sql` is NULL and the next SQLExecute
dereferences it (`tsdb.c:317`).  `tests/c/sqlite3_test.c:446` relies on executing again.
`PreparedIsExecuted` holds as long as neither happens.

Where the code is not what the property would say in full, the property names the exception, and the
exception is this:

- `get_data` (`Careful`): `_get_data_ctx_reset` (`stmt.c:315`) and the switch to another column
  (`stmt.c:3101`) do not clear `residual`, `curr` and `end`.  When a text is truncated inside a
  character and the application goes to another column or row instead of reading on, the next text
  begins with the rest of that character.  And `_stmt_get_data_x` records the column before the
  preparation has succeeded (`stmt.c:3102`): after SQL_NO_DATA, or on a column of a type the driver
  cannot read, a call fails and the same call made again succeeds with the value of an earlier one.
- `CountTells`: when the first row of a batch other than the first fails to convert, SQLExecute
  returns SQL_SUCCESS although this row and all behind it were not executed (`stmt.c:7927`).  At any
  other place the batch is executed as far as that row, and the SQL_SUCCESS_WITH_INFO made of it becomes
  SQL_SUCCESS too (`stmt.c:8303`).  The count and the row's status are right.
- `TraversedOneByOne`: `_fetch_row` commits a message when it finds no more rows in it
  (`topic.c:317`).  With rowsets of more than one row the last rows of the message are then in
  the rowset of a SQLFetch that has not returned; if it fails or the process ends they are lost.
  Rowsets of one row are safe.
- `SentIsBound`: SQL_C_SHORT to a BOOL column and SQL_C_STINYINT to a SMALLINT column give the server the
  application's array, which has another width; a negative text sent to an unsigned BIGINT is taken by
  strtoull and wraps; a double beyond the range of timestamps is cast to `int64_t` unchecked
  (`stmt.c:3640`, `stmt.c:6552`), which is undefined.
- `FitsIsAccepted`: a double that is not positive is refused by a FLOAT column (`dbl < FLT_MIN`); an
  ERANGE that an earlier call has left in errno refuses any text.
- `InputKept`: SQL_C_DOUBLE as SQL_DOUBLE to a TIMESTAMP, FLOAT or INT column is converted in the
  application's own array.
- `ListedInOrder`, `EndIsComplete` (`ExactAsks`): a pattern that ends in plain characters matches every name
  that begins so (`utils.c:394`): SQLColumns of `meter` lists the columns of `meter2` too.  An escape at
  the very end of a pattern is accepted and stands for nothing.  In a list of table types the spaces behind a
  word are part of the word (`tables.c:567`): `TABLE ,VIEW` does not list tables.
- `FetchedAsDescribed`, `TextFitsDisplay` (`Unset`): AUTO_UNIQUE_VALUE of a type without one is INT64_MIN, since
  `typesinfo.c:453` does not test for it as its neighbours do, in a column described as SMALLINT
  (`typesinfo.c:94`).  A SQL_C_SSHORT reads it as 0 with SQL_SUCCESS; as text it has 20 characters, and
  the display size is 6.
- `ColumnsAgreeWithSelect` (`PromotedApart`): with UNSIGNED_PROMOTION the descriptor of a select names
  another type for an unsigned column (`stmt.c:1103`); SQLColumns does not look at the flag
  (`columns.c:547`), so that DATA_TYPE and SQLDescribeCol disagree.
- `DescribedOneByOne`: a change of columns is reported with a change of topic only, because
  `topic.c:179` compares the names of topics and nothing else.  The messages of a database's topic come
  from many tables: a row may be handed out under the columns of another table of the same topic.
- `LoopEnds` speaks of texts and of what is read as one.  A NULL, or a target of fixed width, is answered
  with SQL_SUCCESS however often it is read, and SQL_NO_DATA never comes.
- `SessionIsAsked` (`Counted`): a flag of a data source counts only as a text of one character
  (`conn.c:913`): `CONN_MODE=10` is taken for 0, and so is `x`.
- `OutStringReconnects` (`Reparsable`): what is not in braces is written as it stands (`conn.c:788-803`), and
  the scanner refuses a database or a character set of digits only or with a space in it, a driver of one
  character, and takes no host that is no FQDN.  A string that does not fit the buffer is cut, its
  last three characters are dots, and the call says SQL_SUCCESS (`conn.c:840`).  Without a database the string says `DB=;`, which does not parse;
  CUSTOMPRODUCT is written without the braces it is read with, and the general product is not written
  at all, so that over a data source with another product that one comes back; a port without a host
  (`SERVER=:6030` in the data source) is written as it is and does not parse (`conn.c:778`); a URL given in the string itself is not
  marked as one (`backend` is set only by a data source); an empty input string gives a string without
  DSN and DRIVER (`conn.c:748`).

Seen on the way, without a property:

- Connections.  `conn->dead` is never reset: after SQLDisconnect and SQLConnect a handle that was
  once dead reports dead for ever.  A value of digits only parses only for the keys that take
  numbers: `PWD=123` and `DB=123` do not.  A string that begins with an attribute cannot go on with UID,
  DB or SERVER, nor one that begins with those with URL.  A port beyond 65535 is refused in a
  data source only.  `SERVER=h` without a port takes the URL's port.  What a failed parse has set stays
  set.  UID and PWD are not read from a data source, and the scheme, query and token of a URL do not
  reach `taos_connect_with`.  `CharsetIsServers` takes it that every server lists its character set.
- Statements.  SQLGetData and SQLFetch convert integers to narrower C types without a word; FLOAT and
  DOUBLE as text keep six digits (`%g`); INT to SQL_C_DOUBLE is refused and text to numbers always
  (`stmt.c:2380`: `strtoll`'s end pointer is never NULL); a negative INT read as SQL_C_TYPE_TIMESTAMP
  and a fractional time before 1970 abort the process (`tsdb.c:63`).  SQL_C_TYPE_TIMESTAMP cannot be
  bound.  The display size of a BOOL is 1 and of a TIMESTAMP taken as a number 8, both too
  short for the text.  Topic timestamps are described as milliseconds whatever they are.  When iconv fails after the
  residual was handed out, the bytes already written are not told (`stmt.c:1918`).  Dissociating a shared descriptor
  takes the bound buffers from other statements (`stmt.c:645`).
- Catalogs.  COLUMN_SIZE of SQLColumns is in bytes and the IRD's length in digits; `typesinfo` goes on
  where it stood; ORDINAL_POSITION runs on across tables; no matching table is SQL_ERROR without
  diagnostics for SQLColumns and SQLPrimaryKeys; after a select that failed the precision is 0;
  SQLTables lists table types that no row has; quoted types are not unquoted; a type list ending
  in a comma converts from NULL (`tables.c:582`); SQLPrimaryKeys takes the name for a pattern and only
  the first match; a catalog that merely begins with `%` lists catalogs.
- Topics.  Closing in the middle of a message commits it (`topic.c:118`); NULL for an error is taken for
  the end of a message (`topic.c:318`); one failed commit ends all committing of the statement
  (`topic.c:92`); a change of topic is swallowed when rows precede it in the rowset; the limit of
  records may be passed by less than a message; the pseudo names are indexed by the column
  (`topic.c:220`).
- Parameter arrays.  The statuses of rows behind a bad one may say SQL_PARAM_SUCCESS although they
  were never sent (they are past the count of rows processed); the affected row count is that of the
  last batch; a statement whose only parameter names the sub-table writes no status.

## 5. What is proved

`SessionProofs` about `DriverInit`, for any threads, types and number of calls, from
`ConstAssumption` (`None` and the two marks are not types):

- `ChoiceTypeCorrect`, `MutualExclusion`, `SuccessSound`, `RefusalSound`, `NoSwitch`, `Refinement`.

The word does not tell what the library has loaded while a winner of the compare-and-swap is
at work.  `ChoiceInv` adds what the winner has done at each place (`WinnerInv`), what the word means
when there is none (`WordInv`), and that a thread about to compare has read a word that is final
(`CallerInv`).  `Refinement` maps the calls of the cell to the calls under way and the cell to the
word where it holds a type; publishing is the write, everything before it a stutter.

`HandlesProofs`, for any number of environments, connections, statements, descriptors and threads,
from `ConstAssumption` (the kinds are disjoint, `NULL` is none of them, all is finite):

- `TypeCorrect`, `NoUseAfterFree`, `CountsExact`, `AssociationsSound`, `AssertionsHold`, `NothingLeft`.

A count is exact because each step fills one empty slot or empties one full slot (`AcquireCount`,
`DropCount`); that the slot is empty or full, and that what is released is not pointed to from
elsewhere, needs the rest of `IInv`: what an object holds in each part of its life (`ObjInv`), where
each thread stands in its call and what its handle and argument are there (`ThreadInv`), what the
callers see to, as an invariant of calls in progress (`CallerInv`: nobody else uses a handle that is
being ended, the calls that write a connection's plain lists are one at a time), which statements a
connection lists and who may release one (`StmtInv`, `ReleaserInv`), and that a connection with
statements or a TAOS handle is still the application's (`ConnectedInv`).  The assertions of the release
paths follow from it: a dying object is pointed to by nothing, so nothing is counted; a listed statement
at SQLDisconnect has the application's reference and no other.  `NothingLeft` follows kind by kind:
without handles and calls there is no reference to a statement, then none to a descriptor, a connection,
an environment.

`SessionProofs` about `Connect`, for any data sources, servers and connection strings, from
`ConnectAssumption` (a string names data sources that exist, a value's token is that of its text, a
text of one digit other than 0 is not read as 0, every server lists a character set):

- `TypeCorrect`, `NoSessionLeft`, `ServerKnown`, `StringIsObeyed`, `SessionGiven`, `ToldIsReadBack`,
  `ToldReconnects`.

`IInv` says at each place of a connect whether there is a session (`SessionInv`: exactly one behind
`taos_connect_with`, none before), which driver it runs on (`DriverInv`), and what has been read of
this server so far (`ServerInv`), which is what a second connect might take over from the first.

`SessionGiven` needs to know what the parser makes of a string of any length.  The parser sets one
part after the other (a fold), the property looks for the last part that names a key.  `SaidBy`
says what the first `k` parts say of a key; `SetBy` and `SetRest`, that a configuration is what the
first `k` parts say, are passed on from `k` to `k + 1` by every kind of part, hence hold of
the whole string (`StringIsObeyed`).  A flag of a data source the code sets and the property counts by
different routes (`OneDigitCounts`).  The URL then fills in exactly what `Asked` asks it for
(`FilledIsAsked`).  `AskedInv` follows the configuration, and the session from `taos_connect_with`
on, through the steps of the connect: it is inductive relative to `IInv`, since a step that fails
must leave no session for a later call to find.

`ToldReconnects` rests on the same lemma, used the other way round.  `OutIsListed` and `OutPartsByKey` say
that what is handed back has one part per key and an order the grammar allows, `OutParses` that it
parses, `OutIsRead` that each field read from it is the one written; a field that is not written is
at its default, which needs to know where the configuration comes from (`Kept`).
The hypothesis `Reparsable` is about the configuration alone: the tokens its texts make, and the
fields that are not told; `KindsTold` takes it to the parts of the string.
Filling in from the URL again changes nothing (`FilledAgain`).  `OutInv`, relative to `AskedInv`,
ties the string to the configuration while the handle stays connected, unless it is cut.

`StatementProofs` about `StmtExec`, for any texts and any number of parameters:

- `TypeCorrect`, `ResultsSound`, `DescriptorSound`, `PreparedSound`, `BatchSound`.

Each function of the driver has a lemma that says what it leaves of its record: which fields stay
the same (`Same`), who owns what it holds (`Owned`), what the call has had executed (`Done`).  The
calls are put together from these without being expanded again.  `IInv` adds to the properties that
a prepared statement leaves the position inside the text and, if it has markers, its stmt2 open
(`Kept`), and that until SQLMoreResults it is itself the current one (`Intact`).

`BatchSound` is about what happened in all calls since the text was executed, of which `IInv` knows
nothing.  `BatchKept` ties it to the position: as long as a text that was not prepared has a cursor open,
the statements before the position, without those that were refused, are those that ran, in that order.
It is inductive relative to `IInv`; SQLMoreResults may pass over any number of statements in
one call (`PassedOver`, `SentNext`).

`StatementProofs` about `Catalog`, for any tables, names, columns, arguments, drops and failures, from
`CatalogAssumption` (names are sequences of characters, the columns of a table have different names,
SQLColumns and SQLPrimaryKeys open tables with their own list of types):

- `ColumnsAgree`, `WildMeans`, `ListInvariance`, `ListedAsAsked`, `EndsAsAsked`.

`WalkInv` says where a walk may stand: which cursors are open and where at each place of the driver
(`Positions`, `Walking`), that `current` is the table whose columns are being read although `tables` may have
moved on, and that the row last told was read of it (`LastTold`).  With it `ColumnsAgree` is a fact about two
tables of the driver, that of `columns.c` and that of the IRD, for every type, width and flag, the
DATA_TYPE of a promoted type excepted as in the property.

`ListInv` says what has been listed: of the columns, those of the tables before the cursor, and of
the current one those before its cursor (`ColumnsListed`), likewise for SQLTables and SQLGetTypeInfo.  Each
fetch passes over rows that do not match and adds at most one that does (`FirstSkips`, `ListGrows`), so
that what is listed is a prefix of the list and at SQL_NO_DATA the whole of it.  This is inductive relative to
`WalkInv` (`ListInvariance`), for any patterns: it speaks of what the driver's matcher lets through.

What the matcher lets through is the other half.  `WildMeans` says for every pattern and every name
that a compiled pattern matches what ODBC means by it, with one exception: a last node of plain
characters does not look whether the name ends there, as if a % stood behind it.  The compiler and
the reference read the pattern one character after the other (`CompiledOneByOne`, `LikeOneByOne`: the folds
unrolled); `Simulates` says that after each the nodes made so far and the characters not yet flushed
reach the same places of the name as the reference does.  The matcher goes the other way, from the
last node to the first; `Meeting` is where the two meet, and one node further on they meet if and only
if they met before (`NodeMeets`, `LastMeets`), down to the first place of the name (`ExecMeets`).
`TypesMean` does the same for the list of table types.  `Compilable` says that a walk is never under way
with a pattern the compiler refuses.

`ListedAsAsked` and `EndsAsAsked` put the halves together, and there the exception must be named:
`ExactAsks` is their hypothesis, that for the calls made a pattern which ends in plain characters has
no longer name on the server to match, and that no word of a list of types has spaces behind it.
Without it they are false (section 4).  `MCCatalog` evaluates it for its calls.

The proof found the reference ambiguous: two arms of the CASE in `Expected` held at once for SQLTables.
TLC took the first, which was the one meant; now they exclude each other.

`GetDataProofs`, for any columns, widths of characters, lengths of buffers and number of rows, from
`ConstAssumption` (a character has one byte or more, of UTF-16 two or four, of a varbinary one) and, as
`CarefulAssumption` says, of a careful application (`MayLeave`, `MayRepeat`, room in a bound
buffer for the text bound to it), since without one the properties are false (section 4):

- `FlattenConcat`, `CopyText`, `ValueInPieces`, `LengthIsRemaining`, `ValuesAreAnswered`, `BoundHoldsValue`.

That the pieces are the value is about all calls since the first.  `Holds` ties it to the context: what was
handed out so far, the bytes left over of a split character and the characters to come are the value
itself.  Every copy keeps this sum (`Copied`), whether it ends in a character, in the middle of one or
has no room for anything (`CopyText`); every call then does (`Serves`), and the bound columns one after
the other, which must leave the context clean for the next.  What flattening characters into bytes does
is proved by induction, with the sequences in place of the library's predicate
(`Induct`, `ChainExists`, `FlattenConcat`).

`ParamsProofs`, for any values of the C types, any sizes and length of the arrays, every entry of the
tables, from `ParamsAssumption` (the values an application binds are values of the type it
binds them as):

- `TypeCorrect`, `BindingSound`, `ArraySound`, `SentMeansBound`, `RefusedDoesNotFit`, `ArrayIsKept`.

The first two do not look into the conversions.  The others go down to the bytes.  A value written cell
by cell at a type's width reads back as itself (`DigitsReadBack`, `WrittenIsRead`), what a read
gives is a value of its type whatever the cells hold (`ReadIsValue`), and it sees nothing but
the cells of its own place (`ReadIsLocal`).  `Right` says of one conversion that what it makes is what the
value means, and that it refuses only what does not fit or what `OverStrict` names; there is a lemma
per conversion, since the tables are finite and the values are not, and `RowRight` puts them together.
`Rowed` carries this from row to row: the rows already done are as the server will read them, the
rows to come are still the application's.  A conversion that writes in place (`Overwrite`) keeps both,
because what it writes is never wider than what it has read (`WrittenInPlace`).  `ArraySound` is the
invariant the three action properties start from, beside `BindingAgrees`: what is bound and trusted is an
array of cells with an indicator per row, its type one of the C types, also after another statement
has converted in it.

Working out the proof corrected the model twice: a double just beyond the range of an integer type
was taken to fit it by its truncation, and the cast of one beyond the range of timestamps was
arithmetic without width.

`ResultProofs`, for results, blocks and rowsets of any size and any outcome of the conversions:

- `TypeCorrect` (no row is put beyond the application's arrays), `RowsetSound`, `StatusSound`,
  `StatusArraySound`, `EndFinal`, `Refinement`.

The properties speak of finished rowsets.  `IInv` adds the rowset in the making (`FillInv`: the
first `i_row` places hold the rows from where the call began), where the cursor is at each place
of the loop (`CursorInv`), and what `eof` implies (`EofInv`).  `Refinement` maps a whole
call to one step of the cursor at its return.

The same module, for any results, any values their types can hold and either setting of each flag:

- `DescribedIsRead` (`FetchedAsDescribed`), `DisplaySuffices` (`TextFitsDisplay`).

`DescribeInv` says that the descriptor is the one made of the present result, the row one of that
result, and the last answer a conversion of the row by the two: the properties compare the answer
with a description that was asked for earlier.  What is left is about the two tables of the driver:
the C type of every column type (`DefaultIs`) has room for all its values (`IntTaken`), each
conversion to it changes nothing (`ReadWhole`), a timestamp splits into its seconds and what is
left from the epoch on (`SplitIs`), and the display size bounds the decimal digits of every value
of the type (`TextIsShort`).  The assumption on the constants is what a server's types can hold; the
INT64_MIN of SQLGetTypeInfo is among the values, and is excepted by name in the two properties.

`ParamBatchProofs`, for any parameters, arrays, batch limit, tables and outcomes:

- `TypeCorrect` (no place beyond the driver's buffers or the application's arrays is used),
  `RowsWhole`, `CountSound`.

`IInv` adds where the call stands (`BatchInv`: the rows before the batch are loaded and counted,
a row in error is the one just behind the batch), and what the columns done so far have put into
the buffers for as many rows as are left in the batch (`DoneInv`): it is this that survives when a
later column cuts the batch.  `PackingLossless` says that the server finds behind the
values before it exactly the value that was converted, by counting the values that are not
null.  The assumption that the sub-table's name can only be the first parameter is the test of
`_stmt_prepare_col` (`stmt.c:7685`).

`TopicProofs`, for any queues, messages, limits and rowsets:

- `TypeCorrect`, `LimitKept`, and for a careful application `FetchedBeforeCommitted`,
  `TraversedBeforeCommitted`, `RowsDescribed`, `Refinement`.

That a committed message was fetched is about the past; `PlaceInv` ties it to the present: every
message delivered to this consumer is fetched but for what is left of the one being read.
`CloseInv` says that where the application may close there is no message, or none that will be
committed; `DescInv` what the application was told of the columns at each place.  `Careful` is
a hypothesis of these theorems, since without it they are false (`topic.c:118`, `topic.c:277`).

Only model-checked: the liveness properties, since TLAPS has no ENABLED (`EveryCallReturns` of
`DriverInit`, `Catalog` and `Topic`, `EveryExecuteReturns`), and the action property `LoopEnds`.  Every other property of a passing
run is a theorem.  `DMHasChecked` is refuted.

The provers do not know that a string literal is a member of STRING.  `Glyph` is STRING with the literals the
code tells apart, and the lemmas about patterns are stated over it.

## 6. Plan

Done, in this order: `DriverInit`, `Handles`, `Fetch`, `GetData`, `ParamBatch`, `Topic`; then
`StmtExec`, `Params`, `Describe`, `Catalog`, `Connect`; and the proofs of section 5.  Left:

1. `Errs` and `Charset`: the pool of diagnostics records and the caches of conversions.
2. `ListRace`: `Handles` without the one-at-a-time contract for a connection's lists.
3. `Catalog` as an implementation of `RowCursor`, one cursor per level of the walk.

## 7. What is not modelled, and why

- Digits, layout and wording of conversions; invalid input to iconv: `GetData` has values that
  convert, `Describe` and `ParamConv` have their magnitudes.  SQL_NUMERIC and intervals, which the
  driver refuses.
- The SQL and URL parsers: generated, without shared state; they are taken by their result.  The
  connection-string grammar is modelled in `Connect`.
- Diagnostics (`errs.c`), the caches of iconv descriptors (`charset.c`, `tls.c`): pools behind the
  modelled calls, planned.
- The result source adapter (`ds.c`): a thin dispatch over the client library.
- Attributes of environments, connections and statements other than the descriptors and
  SQL_ATTR_CONNECTION_DEAD; SQLGetInfo; SQLDescribeParam; cancellation.
- The setup dialog: Windows dialog code; its one shared step is `conn_init_driver_type`.
- Logging, build information, `taoswsd` (a separate server program), samples.
- In `ParamBatch`: statements other than inserts (arrays are refused for them, `stmt.c:7896`),
  the lengths of values of variable width (packing moves each value down over room that is free),
  and the checks before the loop, which refuse a call and leave the count alone.
- In `Topic`: SQLPrepare and SQLExecute of a topic (`StmtExec` has them) and SQLGetData of its rows.
- Row-wise binding and bookmarks: the driver refuses them.
