----------------------------- MODULE Translator -----------------------------
(***************************************************************************)
(* The Go translator: a catalog of operations is loaded from files and     *)
(* validated, an executor is made over it, and requests are executed, one  *)
(* operation after the other: an action event's reads and then its writes, *)
(* or the one operation of a query.                                        *)
(*                                                                         *)
(* Of an SQL text only the parameters it names matter, of a row only which *)
(* statement of which request wrote it.  The database is external: any     *)
(* call to it may fail, and a commit or a single write that is reported as *)
(* failed may have taken effect.                                           *)
(***************************************************************************)
EXTENDS Integers, Sequences, FiniteSets

CONSTANTS
    Files,            \* the files of operations/
    FileOps,          \* the operations of a file, in order
    FileEvents,       \* its event declarations: [name, requires]
    CheckedReducers,  \* the keys Validate is given
    Reducers,         \* the keys of the reducers the executor is given
    Jobs,             \* the requests
    Request,          \* what each of them is
    MayFail,          \* whether the database may fail
    MaxLoads          \* bound: calls of LoadFromYAML

(* A statement is the set of the parameters it names; an operation has at  *)
(* most one in sql, and any number in sql_sequence.                        *)
Statement == SUBSET STRING
OperationDef == [name : STRING, mode : STRING, reducer : STRING,
                 sql : Seq(Statement), sequence : Seq(Statement)]
EventDef == [name : STRING, requires : SUBSET STRING]

(* The reads and the writes of an action event, in this order, or the one  *)
(* operation of a query, with the names of the parameters they give.       *)
RequestType == [kind : {"event", "query"}, nilParams : BOOLEAN,
                steps : Seq([op : STRING, given : SUBSET STRING])]

ASSUME TranslatorAssumption ==
    /\ CheckedReducers \subseteq STRING /\ Reducers \subseteq STRING
    /\ \A f \in Files : FileOps[f] \in Seq(OperationDef) /\ FileEvents[f] \in Seq(EventDef)
    /\ Request \in [Jobs -> RequestType]
    /\ MayFail \in BOOLEAN /\ MaxLoads \in Nat

VARIABLES
    ops,        \* the operations of the catalog
    events,     \* its events
    validated,
    checked,    \* the operations the last successful Validate has seen
    executor,   \* NewExecutor has returned one
    loads,      \* calls of LoadFromYAML
    at,         \* the operation of a request that is next or failed
    stage,      \* statements that succeeded in its transaction
    rows,       \* the statements that have taken effect
    outcome     \* what a request has come to

catalogVars == <<ops, events, validated, checked, executor, loads>>
requestVars == <<at, stage, rows, outcome>>
vars == <<catalogVars, requestVars>>
-----------------------------------------------------------------------------
(* The entries of a file up to the first whose name is taken.              *)
Leading(defs, known) ==
    {i \in DOMAIN defs : \A j \in 1..i :
        /\ \A d \in known : d.name # defs[j].name
        /\ \A k \in 1..(j - 1) : defs[k].name # defs[j].name}

(* LoadFromYAML: a duplicate is an error that leaves what came before it.  *)
(* Nothing is loaded while a request runs.                                 *)
LoadFromYAML(f) ==
    /\ loads < MaxLoads /\ \A j \in Jobs : outcome[j] # "running"
    /\ loads' = loads + 1
    /\ LET fresh == Leading(FileOps[f], ops)
       IN  /\ ops' = ops \cup {FileOps[f][i] : i \in fresh}
           /\ events' = IF fresh # DOMAIN FileOps[f] THEN events
                        ELSE events \cup {FileEvents[f][i] :
                                i \in Leading(FileEvents[f], events)}
    /\ UNCHANGED <<validated, checked, executor, requestVars>>

EventsAreKnown ==
    \A e \in events : \A n \in e.requires : \E op \in ops : op.name = n

(* Variant of IsSound: a reducer is named, whether it is registered or not. *)
IsSoundIfNamed(op) ==
    /\ op.mode = "query" => op.reducer # ""
    /\ op.sql # <<>> \/ op.sequence # <<>>
IsSound(op) ==
    /\ op.mode = "query" => op.reducer # "" /\ op.reducer \in CheckedReducers
    /\ op.sql # <<>> \/ op.sequence # <<>>

(* Validate: the mark is never taken back.                                 *)
Validate ==
    /\ EventsAreKnown /\ \A op \in ops : IsSound(op)
    /\ validated' = TRUE /\ checked' = ops
    /\ UNCHANGED <<ops, events, executor, loads, requestVars>>

NewExecutor ==
    /\ validated /\ executor' = TRUE
    /\ UNCHANGED <<ops, events, validated, checked, loads, requestVars>>
-----------------------------------------------------------------------------
Steps(j) == Request[j].steps
IsQuery(j) == Request[j].kind = "query"

(* HandleQueryRequest adds current_tick to the parameters, HandleActionEvent *)
(* nothing.  Adding to the nil map of a query without parameters panics.   *)
Begin(j) ==
    /\ executor /\ outcome[j] = "none"
    /\ at' = [at EXCEPT ![j] = 1]
    /\ outcome' = [outcome EXCEPT ![j] =
            IF IsQuery(j) /\ Request[j].nilParams THEN "panic"
            ELSE IF Steps(j) = <<>> THEN "ok" ELSE "running"]
    /\ UNCHANGED <<catalogVars, stage, rows>>

Given(j) == Steps(j)[at[j]].given \cup (IF IsQuery(j) THEN {"current_tick"} ELSE {})
Called(j) == {op \in ops : op.name = Steps(j)[at[j]].op}

InTransaction(op) == op.mode = "write" /\ op.sequence # <<>>

(* Only a write looks at sql_sequence; a read without sql is an empty text. *)
Statements(op) ==
    IF InTransaction(op) THEN op.sequence
    ELSE IF op.sql # <<>> THEN op.sql ELSE <<{}>>

CanExpand(j, op) == \A i \in DOMAIN Statements(op) : Statements(op)[i] \subseteq Given(j)
Executable(j, op) == op.mode \in {"read", "query", "write"} /\ CanExpand(j, op)

(* Variant of StageAfter: the next operation starts where this one ended.  *)
StageKept(j) == stage[j]
StageAfter(j) == 0

Running(j) == outcome[j] = "running"
Ends(j, how) ==
    /\ outcome' = [outcome EXCEPT ![j] = how]
    /\ stage' = [stage EXCEPT ![j] = 0]
    /\ UNCHANGED <<catalogVars, at>>

(* Variant of AfterError: the handler goes on with the next operation.     *)
GoesOn(j) ==
    /\ at' = [at EXCEPT ![j] = IF @ = Len(Steps(j)) THEN @ ELSE @ + 1]
    /\ outcome' = [outcome EXCEPT ![j] = IF at[j] = Len(Steps(j)) THEN "ok" ELSE @]
    /\ stage' = [stage EXCEPT ![j] = 0]
    /\ UNCHANGED catalogVars
AfterError(j) == Ends(j, "error")

Advance(j) ==
    /\ at' = [at EXCEPT ![j] = IF @ = Len(Steps(j)) THEN @ ELSE @ + 1]
    /\ outcome' = [outcome EXCEPT ![j] = IF at[j] = Len(Steps(j)) THEN "ok" ELSE @]
    /\ stage' = [stage EXCEPT ![j] = StageAfter(j)]
    /\ UNCHANGED catalogVars

(* Execute, before the database is called.                                 *)
Refuse(j) ==
    /\ Running(j) /\ stage[j] = 0
    /\ ~\E op \in Called(j) : Executable(j, op)
    /\ AfterError(j) /\ UNCHANGED rows

(* QueryContext, and the reducer of a query: a nil function when it is not *)
(* registered.                                                             *)
Read(j) ==
    /\ Running(j)
    /\ \E op \in Called(j) :
        /\ Executable(j, op) /\ op.mode # "write"
        /\ IF op.mode = "query" /\ op.reducer \notin Reducers
           THEN Ends(j, "panic") ELSE Advance(j)
    /\ UNCHANGED rows

Effects(j, op) == {<<j, at[j], k>> : k \in DOMAIN Statements(op)}

(* Variant of SeenBefore: every statement takes effect at once.            *)
SeenAtOnce(j) == {<<j, at[j], stage[j] + 1>>}
SeenBefore(j) == {}

(* tx.ExecContext                                                          *)
ExecInTransaction(j) ==
    /\ Running(j)
    /\ \E op \in Called(j) :
        /\ Executable(j, op) /\ InTransaction(op) /\ stage[j] < Len(Statements(op))
    /\ stage' = [stage EXCEPT ![j] = @ + 1]
    /\ rows' = rows \cup SeenBefore(j)
    /\ UNCHANGED <<catalogVars, at, outcome>>

TakesEffect(j, op) ==
    /\ Executable(j, op) /\ op.mode = "write"
    /\ InTransaction(op) => stage[j] = Len(Statements(op))

(* tx.Commit, or ExecContext of a single statement.                        *)
Write(j) ==
    /\ Running(j)
    /\ \E op \in Called(j) :
        /\ TakesEffect(j, op)
        /\ rows' = rows \cup Effects(j, op)
        /\ Advance(j)

(* An error from the database.  A transaction is rolled back unless it was *)
(* the commit that failed.                                                 *)
Fail(j) ==
    /\ MayFail /\ Running(j)
    /\ \E op \in Called(j) :
        /\ Executable(j, op)
        /\ \/ UNCHANGED rows
           \/ TakesEffect(j, op) /\ rows' = rows \cup Effects(j, op)
    /\ AfterError(j)

Init ==
    /\ ops = {} /\ events = {} /\ checked = {}
    /\ validated = FALSE /\ executor = FALSE /\ loads = 0
    /\ at = [j \in Jobs |-> 1] /\ stage = [j \in Jobs |-> 0]
    /\ rows = {} /\ outcome = [j \in Jobs |-> "none"]

RequestStep(j) ==
    Begin(j) \/ Refuse(j) \/ Read(j) \/ ExecInTransaction(j) \/ Write(j) \/ Fail(j)
Next ==
    \/ \E f \in Files : LoadFromYAML(f)
    \/ Validate \/ NewExecutor
    \/ \E j \in Jobs : RequestStep(j)

Spec == Init /\ [][Next]_vars
-----------------------------------------------------------------------------
(* Every variable has its type, an operation name one meaning, and a       *)
(* request is in a transaction only while one of its operations is.        *)
TypeOK ==
    /\ ops \subseteq OperationDef /\ events \subseteq EventDef
    /\ \A d, e \in ops : d.name = e.name => d = e
    /\ validated \in BOOLEAN /\ executor \in BOOLEAN /\ loads \in 0..MaxLoads
    /\ at \in [Jobs -> Nat \ {0}]
    /\ stage \in [Jobs -> Nat] /\ rows \subseteq Jobs \X Nat \X Nat
    /\ outcome \in [Jobs -> {"none", "running", "ok", "error", "panic"}]
    /\ \A j \in Jobs : stage[j] > 0 =>
        Running(j) /\ \E op \in Called(j) : InTransaction(op)

Written(j, i) == {r[3] : r \in {q \in rows : q[1] = j /\ q[2] = i}}
Wanted(i, j) ==
    {op \in ops : op.name = Steps(j)[i].op /\ op.mode = "write"}

(* What a request reports is what it did.  An operation takes effect as a  *)
(* whole or not at all; whatever the request says, there is a point in its *)
(* list before which every write took effect and after which none did, and *)
(* it says ok only if that point is the end (handler.go:58 stops at the    *)
(* first error and undoes nothing).                                        *)
OutcomeIsTrue ==
    \A j \in Jobs : \A i \in DOMAIN Steps(j) : \A op \in Wanted(i, j) :
        LET all == DOMAIN Statements(op)
        IN  /\ Written(j, i) \in {{}, all}
            /\ outcome[j] = "ok" \/ i < at[j] => Written(j, i) = all
            /\ outcome[j] # "ok" /\ i > at[j] => Written(j, i) = {}
            /\ outcome[j] \in {"none", "running"} /\ i = at[j] => Written(j, i) = {}

(* What Validate has checked stays in the catalog as it was checked, also  *)
(* when more files are loaded later (which does not take the mark back,    *)
(* catalog.go:54).  A request panics for three causes only: a query has no *)
(* parameters, its operation was never checked, or it was checked against  *)
(* a key the executor was not given (catalog.go:89, executor.go:30).       *)
PanicsHaveCause ==
    /\ checked \subseteq ops
    /\ executor => validated
    /\ \A j \in Jobs : outcome[j] = "panic" =>
        \/ IsQuery(j) /\ Request[j].nilParams
        \/ \E op \in Called(j) :
            op.mode = "query" /\ (op \in checked => op.reducer \in CheckedReducers \ Reducers)

(* A request whose operations are in the catalog gives the parameters they *)
(* need: without a failure of the database none ends in an error.          *)
ParametersSuffice ==
    \A j \in Jobs : outcome[j] = "error" => Called(j) = {}
=============================================================================
