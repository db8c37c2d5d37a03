-------------------------- MODULE TranslatorProofs --------------------------
(***************************************************************************)
(* Proofs about Translator, for any files, requests and reducers, and any  *)
(* number of loads.                                                        *)
(*                                                                         *)
(* The inductive invariant adds to the properties what makes them last     *)
(* when more files are loaded: a request has only got past operations that *)
(* were in the catalog then, and their names keep their meaning.           *)
(***************************************************************************)
EXTENDS Translator, SequenceTheorems, TLAPS

(* A file's leading entries have names of their own, and new ones.         *)
LEMMA LeadingNames ==
    ASSUME NEW X, NEW defs \in Seq(X), NEW known
    PROVE  /\ \A i \in Leading(defs, known) : defs[i] \in X
           /\ \A i \in Leading(defs, known), d \in known : d.name # defs[i].name
           /\ \A i, k \in Leading(defs, known) : i # k => defs[k].name # defs[i].name
<1>1. DOMAIN defs = 1..Len(defs) /\ Len(defs) \in Nat /\ \A i \in DOMAIN defs : defs[i] \in X
    OBVIOUS
<1>2. Leading(defs, known) \subseteq DOMAIN defs
    BY DEF Leading
<1>3. ASSUME NEW i \in Leading(defs, known), NEW d \in known PROVE d.name # defs[i].name
  <2>1. i \in 1..i
    BY <1>1, <1>2
  <2> QED BY <2>1 DEF Leading
<1>4. ASSUME NEW i \in Leading(defs, known), NEW k \in Leading(defs, known), k < i
      PROVE  defs[k].name # defs[i].name
  <2>1. i \in 1..i /\ k \in 1..(i - 1)
    BY <1>1, <1>2, <1>4
  <2> QED BY <2>1 DEF Leading
<1>5. ASSUME NEW i \in Leading(defs, known), NEW k \in Leading(defs, known), i # k
      PROVE  defs[k].name # defs[i].name
  <2>1. i \in Int /\ k \in Int
    BY <1>1, <1>2
  <2>2. CASE k < i
    BY <1>4, <2>2
  <2>3. CASE i < k
    BY <1>4, <2>3
  <2> QED BY <1>5, <2>1, <2>2, <2>3
<1> QED BY <1>1, <1>2, <1>3, <1>5

(* A load only adds operations, each under a name of its own.              *)
OpsTyped == ops \subseteq OperationDef /\ events \subseteq EventDef
NamesAreUnique == \A d, e \in ops : d.name = e.name => d = e

LEMMA LoadFacts ==
    ASSUME OpsTyped, NamesAreUnique, NEW f \in Files, LoadFromYAML(f)
    PROVE  OpsTyped' /\ NamesAreUnique' /\ ops \subseteq ops'
<1> DEFINE fresh == Leading(FileOps[f], ops)
<1>1. FileOps[f] \in Seq(OperationDef) /\ FileEvents[f] \in Seq(EventDef)
    BY TranslatorAssumption DEF TranslatorAssumption
<1>2. ops' = ops \cup {FileOps[f][i] : i \in fresh}
    BY DEF LoadFromYAML
<1>3. /\ \A i \in fresh : FileOps[f][i] \in OperationDef
      /\ \A i \in fresh, d \in ops : d.name # FileOps[f][i].name
      /\ \A i, k \in fresh : i # k => FileOps[f][k].name # FileOps[f][i].name
    BY <1>1, LeadingNames
<1>4. \A i \in Leading(FileEvents[f], events) : FileEvents[f][i] \in EventDef
    BY <1>1, LeadingNames
<1>5. events' \subseteq EventDef
    BY <1>4 DEF LoadFromYAML, OpsTyped
<1>6. OpsTyped'
    BY <1>2, <1>3, <1>5 DEF OpsTyped
<1>7. NamesAreUnique'
  <2> SUFFICES ASSUME NEW d \in ops', NEW e \in ops', d.name = e.name PROVE d = e
    BY DEF NamesAreUnique
  <2> QED BY <1>2, <1>3 DEF NamesAreUnique
<1> QED BY <1>2, <1>6, <1>7
-----------------------------------------------------------------------------
(* The statements of one operation of one request among some rows.         *)
Of(R, j, i) == {r[3] : r \in {q \in R : q[1] = j /\ q[2] = i}}

-----------------------------------------------------------------------------
(* The inductive invariant.                                                *)
RequestsTyped ==
    /\ at \in [Jobs -> Nat \ {0}] /\ stage \in [Jobs -> Nat]
    /\ rows \subseteq Jobs \X Nat \X Nat
    /\ outcome \in [Jobs -> {"none", "running", "ok", "error", "panic"}]

StagedInTransaction ==
    \A j \in Jobs : stage[j] > 0 =>
        Running(j) /\ \E op \in Called(j) : InTransaction(op)

Passed(j, i) == i < at[j] \/ outcome[j] = "ok" \/ Written(j, i) # {}
PassedIsKnown ==
    \A j \in Jobs : \A i \in DOMAIN Steps(j) :
        Passed(j, i) => \E op \in ops : op.name = Steps(j)[i].op

AtIsInList ==
    \A j \in Jobs :
        /\ Running(j) => at[j] \in DOMAIN Steps(j)
        /\ outcome[j] = "none" => at[j] = 1

CheckedIsSound ==
    /\ checked \subseteq ops /\ \A op \in checked : IsSound(op)
    /\ executor => validated
    /\ \A j \in Jobs : outcome[j] = "panic" =>
        \/ IsQuery(j) /\ Request[j].nilParams
        \/ \E op \in Called(j) : op.mode = "query" /\ op.reducer \notin Reducers

CatalogTyped ==
    /\ OpsTyped /\ NamesAreUnique
    /\ validated \in BOOLEAN /\ executor \in BOOLEAN /\ loads \in 0..MaxLoads

TranslatorInv ==
    /\ CatalogTyped /\ RequestsTyped /\ StagedInTransaction
    /\ PassedIsKnown /\ AtIsInList /\ OutcomeIsTrue /\ CheckedIsSound

LEMMA StepsAreSequences ==
    ASSUME NEW j \in Jobs
    PROVE  DOMAIN Steps(j) = 1..Len(Steps(j)) /\ Len(Steps(j)) \in Nat
<1>1. Request[j] \in RequestType
    BY TranslatorAssumption DEF TranslatorAssumption
<1>2. Steps(j) \in Seq([op : STRING, given : SUBSET STRING])
    BY <1>1 DEF RequestType, Steps
<1> QED BY <1>2

LEMMA InitInv == Init => TranslatorInv
<1> SUFFICES ASSUME Init PROVE TranslatorInv
    OBVIOUS
<1>1. CatalogTyped
  <2>1. MaxLoads \in Nat
    BY TranslatorAssumption DEF TranslatorAssumption
  <2>2. OpsTyped /\ NamesAreUnique
    BY DEF Init, OpsTyped, NamesAreUnique
  <2>3. loads \in 0..MaxLoads
    BY <2>1 DEF Init
  <2>4. validated \in BOOLEAN /\ executor \in BOOLEAN
    BY DEF Init
  <2> QED BY <2>2, <2>3, <2>4 DEF CatalogTyped
<1>2. RequestsTyped
    BY DEF Init, RequestsTyped
<1>3. \A j \in Jobs : \A i : Written(j, i) = {}
    BY DEF Init, Written
<1>4. \A j \in Jobs : at[j] = 1 /\ outcome[j] = "none" /\ stage[j] = 0
    BY DEF Init
<1>5. StagedInTransaction /\ AtIsInList
    BY <1>4 DEF StagedInTransaction, AtIsInList, Running
<1>6. PassedIsKnown
    BY <1>3, <1>4, StepsAreSequences DEF PassedIsKnown, Passed
<1>7. OutcomeIsTrue
    BY <1>3, <1>4, StepsAreSequences DEF OutcomeIsTrue
<1>8. CheckedIsSound
    BY <1>4 DEF Init, CheckedIsSound
<1> QED BY <1>1, <1>2, <1>5, <1>6, <1>7, <1>8 DEF TranslatorInv

(* What a step that leaves the requests alone keeps, when the catalog only *)
(* grows.                                                                  *)
LEMMA CatalogGrows ==
    ASSUME TranslatorInv, CatalogTyped', ops \subseteq ops', UNCHANGED requestVars
    PROVE  /\ RequestsTyped' /\ StagedInTransaction' /\ PassedIsKnown'
           /\ AtIsInList' /\ OutcomeIsTrue'
<1>1. UNCHANGED <<at, stage, rows, outcome>>
    BY DEF requestVars
<1>2. RequestsTyped'
    BY <1>1 DEF TranslatorInv, RequestsTyped
<1>3. \A j \in Jobs : Called(j) \subseteq Called(j)'
    BY <1>1 DEF Called
<1>4. StagedInTransaction'
    BY <1>1, <1>3 DEF TranslatorInv, StagedInTransaction, Running, InTransaction
<1>5. \A j, i : Written(j, i)' = Written(j, i)
    BY <1>1 DEF Written
<1>6. PassedIsKnown'
    BY <1>1, <1>5 DEF TranslatorInv, PassedIsKnown, Passed
<1>7. AtIsInList'
    BY <1>1 DEF TranslatorInv, AtIsInList, Running
<1>8. ASSUME NEW j \in Jobs, NEW i \in DOMAIN Steps(j), NEW op \in Wanted(i, j)'
      PROVE  /\ Passed(j, i) => op \in Wanted(i, j)
             /\ ~Passed(j, i) => Written(j, i) = {}
  <2>1. op \in ops' /\ op.name = Steps(j)[i].op /\ op.mode = "write"
    BY <1>8 DEF Wanted
  <2>2. ASSUME Passed(j, i) PROVE op \in ops
    <3>1. PICK e \in ops : e.name = Steps(j)[i].op
      BY <2>2 DEF TranslatorInv, PassedIsKnown
    <3> QED BY <2>1, <3>1 DEF CatalogTyped, NamesAreUnique
  <2> QED BY <2>1, <2>2 DEF Wanted, Passed
<1>9. OutcomeIsTrue'
  <2> SUFFICES ASSUME NEW j \in Jobs, NEW i \in DOMAIN Steps(j), NEW op \in Wanted(i, j)'
               PROVE  LET all == DOMAIN Statements(op)
                      IN  /\ Written(j, i) \in {{}, all}
                          /\ outcome[j] = "ok" \/ i < at[j] => Written(j, i) = all
                          /\ outcome[j] # "ok" /\ i > at[j] => Written(j, i) = {}
                          /\ outcome[j] \in {"none", "running"} /\ i = at[j] =>
                                Written(j, i) = {}
    BY <1>1, <1>5 DEF OutcomeIsTrue
  <2>1. CASE Passed(j, i)
    BY <1>8, <2>1 DEF TranslatorInv, OutcomeIsTrue
  <2>2. CASE ~Passed(j, i)
    BY <1>8, <2>2 DEF Passed
  <2> QED BY <2>1, <2>2
<1> QED BY <1>2, <1>4, <1>6, <1>7, <1>9

LEMMA LoadInv ==
    ASSUME TranslatorInv, NEW f \in Files, LoadFromYAML(f)
    PROVE  TranslatorInv'
<1>1. OpsTyped' /\ NamesAreUnique' /\ ops \subseteq ops'
    BY LoadFacts DEF TranslatorInv, CatalogTyped
<1>2. UNCHANGED <<validated, checked, executor>> /\ UNCHANGED requestVars
    BY DEF LoadFromYAML
<1>3. loads' \in 0..MaxLoads
  <2>1. MaxLoads \in Nat
    BY TranslatorAssumption DEF TranslatorAssumption
  <2> QED BY <2>1 DEF LoadFromYAML, TranslatorInv, CatalogTyped
<1>4. CatalogTyped'
    BY <1>1, <1>2, <1>3 DEF TranslatorInv, CatalogTyped
<1>5. \A j \in Jobs : Called(j) \subseteq Called(j)'
    BY <1>1, <1>2 DEF Called, requestVars
<1>6. CheckedIsSound'
    BY <1>1, <1>2, <1>5 DEF TranslatorInv, CheckedIsSound, requestVars, IsSound
<1> QED BY <1>1, <1>2, <1>4, <1>6, CatalogGrows DEF TranslatorInv

LEMMA ValidateInv ==
    ASSUME TranslatorInv, Validate \/ NewExecutor
    PROVE  TranslatorInv'
<1>1. ops' = ops /\ UNCHANGED <<events, loads>> /\ UNCHANGED requestVars
    BY DEF Validate, NewExecutor
<1>2. CatalogTyped'
  <2>1. validated' \in BOOLEAN /\ executor' \in BOOLEAN
    BY DEF Validate, NewExecutor, TranslatorInv, CatalogTyped
  <2> QED BY <1>1, <2>1 DEF TranslatorInv, CatalogTyped, OpsTyped, NamesAreUnique
<1>3. CheckedIsSound'
  <2>1. /\ checked' \subseteq ops' /\ \A op \in checked' : IsSound(op)
        /\ executor' => validated'
    BY DEF Validate, NewExecutor, TranslatorInv, CheckedIsSound
  <2> QED BY <1>1, <2>1 DEF TranslatorInv, CheckedIsSound, IsSound, Called, requestVars
<1> QED BY <1>1, <1>2, <1>3, CatalogGrows DEF TranslatorInv
-----------------------------------------------------------------------------
(* A step of one request needs to be looked at for that request only.      *)
JobSound(j) ==
    /\ stage[j] > 0 => Running(j) /\ \E op \in Called(j) : InTransaction(op)
    /\ \A i \in DOMAIN Steps(j) :
        Passed(j, i) => \E op \in ops : op.name = Steps(j)[i].op
    /\ Running(j) => at[j] \in DOMAIN Steps(j)
    /\ outcome[j] = "none" => at[j] = 1
    /\ \A i \in DOMAIN Steps(j) : \A op \in Wanted(i, j) :
        /\ Written(j, i) \in {{}, DOMAIN Statements(op)}
        /\ outcome[j] = "ok" \/ i < at[j] => Written(j, i) = DOMAIN Statements(op)
        /\ outcome[j] # "ok" /\ i > at[j] => Written(j, i) = {}
        /\ outcome[j] \in {"none", "running"} /\ i = at[j] => Written(j, i) = {}
    /\ outcome[j] = "panic" =>
        \/ IsQuery(j) /\ Request[j].nilParams
        \/ \E op \in Called(j) : op.mode = "query" /\ op.reducer \notin Reducers

CatalogSound ==
    /\ CatalogTyped /\ checked \subseteq ops /\ \A op \in checked : IsSound(op)
    /\ executor => validated

LEMMA JobByJob ==
    /\ TranslatorInv <=> CatalogSound /\ RequestsTyped /\ \A j \in Jobs : JobSound(j)
    /\ TranslatorInv' <=> CatalogSound' /\ RequestsTyped' /\ \A j \in Jobs : JobSound(j)'
<1>1. TranslatorInv <=> CatalogSound /\ RequestsTyped /\ \A j \in Jobs : JobSound(j)
    BY DEF TranslatorInv, CatalogSound, JobSound, StagedInTransaction, PassedIsKnown,
           AtIsInList, OutcomeIsTrue, CheckedIsSound
<1>2. TranslatorInv' <=> CatalogSound' /\ RequestsTyped' /\ \A j \in Jobs : JobSound(j)'
    BY DEF TranslatorInv, CatalogSound, JobSound, StagedInTransaction, PassedIsKnown,
           AtIsInList, OutcomeIsTrue, CheckedIsSound
<1> QED BY <1>1, <1>2

LEMMA OtherJobs ==
    ASSUME TranslatorInv, UNCHANGED catalogVars, NEW j \in Jobs, RequestsTyped',
           \A k \in Jobs \ {j} : /\ at'[k] = at[k] /\ stage'[k] = stage[k]
                                 /\ outcome'[k] = outcome[k]
                                 /\ \A i : Written(k, i)' = Written(k, i),
           JobSound(j)'
    PROVE  TranslatorInv'
<1>1. CatalogSound'
    BY JobByJob DEF CatalogSound, CatalogTyped, OpsTyped, NamesAreUnique, catalogVars, IsSound
<1>2. ASSUME NEW k \in Jobs \ {j} PROVE JobSound(k)'
  <2>1. JobSound(k)
    BY JobByJob
  <2>2. ops' = ops
    BY DEF catalogVars
  <2> QED BY <2>1, <2>2 DEF JobSound, Running, Called, InTransaction, Passed, Wanted
<1>3. \A k \in Jobs : JobSound(k)'
    BY <1>2
<1> QED BY <1>1, <1>3, JobByJob

LEMMA WrittenAfter ==
    ASSUME NEW j, NEW op, rows' = rows \cup Effects(j, op), NEW k, NEW i
    PROVE  /\ k = j /\ i = at[j] =>
                Written(k, i)' = Written(k, i) \cup DOMAIN Statements(op)
           /\ ~(k = j /\ i = at[j]) => Written(k, i)' = Written(k, i)
<1> DEFINE News == Of(Effects(j, op), k, i)
<1>1. Of(rows', k, i) = Of(rows, k, i) \cup News
    BY DEF Of
<1>2. Written(k, i)' = Written(k, i) \cup News
    BY <1>1 DEF Written, Of
<1>3. ASSUME k = j, i = at[j] PROVE News = DOMAIN Statements(op)
  <2>1. ASSUME NEW n \in DOMAIN Statements(op) PROVE n \in News
    <3>1. /\ <<j, at[j], n>> \in Effects(j, op)
          /\ <<j, at[j], n>>[1] = k /\ <<j, at[j], n>>[2] = i /\ <<j, at[j], n>>[3] = n
      BY <1>3 DEF Effects
    <3>2. <<j, at[j], n>> \in {q \in Effects(j, op) : q[1] = k /\ q[2] = i}
      BY <3>1
    <3> QED BY <3>1, <3>2 DEF Of
  <2>2. \A q \in Effects(j, op) : q[3] \in DOMAIN Statements(op)
    BY DEF Effects
  <2> QED BY <2>1, <2>2 DEF Of
<1>4. ASSUME ~(k = j /\ i = at[j]) PROVE News = {}
    BY <1>4 DEF Of, Effects
<1> QED BY <1>2, <1>3, <1>4

(* What takes effect is a write of the catalog, and the only one of its    *)
(* name.                                                                   *)
LEMMA EffectFacts ==
    ASSUME TranslatorInv, NEW j \in Jobs, NEW op \in Called(j), Running(j),
           rows' = rows \cup Effects(j, op)
    PROVE  rows' \subseteq Jobs \X Nat \X Nat
<1>1. op \in OperationDef
    BY DEF Called, TranslatorInv, CatalogTyped, OpsTyped
<1>2. Statements(op) \in Seq(Statement)
  <2>1. op.sequence \in Seq(Statement) /\ op.sql \in Seq(Statement)
    BY <1>1 DEF OperationDef
  <2>2. <<{}>> \in Seq(Statement)
    BY DEF Statement
  <2> QED BY <2>1, <2>2 DEF Statements
<1>3. DOMAIN Statements(op) \subseteq Nat
    BY <1>2
<1>4. at[j] \in Nat
    BY DEF TranslatorInv, RequestsTyped
<1> QED BY <1>3, <1>4 DEF Effects, TranslatorInv, RequestsTyped

LEMMA OnlyOne ==
    ASSUME TranslatorInv, NEW j \in Jobs, NEW op \in Called(j)
    PROVE  Called(j) = {op} /\ \A e \in Wanted(at[j], j) : e = op
BY DEF TranslatorInv, CatalogTyped, NamesAreUnique, Called, Wanted

RunningFacts(j) ==
    /\ at[j] \in DOMAIN Steps(j) /\ at[j] \in Nat /\ Len(Steps(j)) \in Nat
    /\ DOMAIN Steps(j) = 1..Len(Steps(j))
    /\ \A e \in Wanted(at[j], j) : Written(j, at[j]) = {}

LEMMA RunningKnows ==
    ASSUME TranslatorInv, NEW j \in Jobs, Running(j)
    PROVE  RunningFacts(j) /\ JobSound(j)
<1>1. JobSound(j)
    BY JobByJob
<1>2. at[j] \in Nat
    BY DEF TranslatorInv, RequestsTyped
<1> QED BY <1>1, <1>2, StepsAreSequences DEF JobSound, Running, RunningFacts

(* The operation a request is at has done all it does, or nothing.         *)
Done(j, op) ==
    \/ op.mode # "write" /\ rows' = rows
    \/ TakesEffect(j, op) /\ rows' = rows \cup Effects(j, op)
Undone == rows' = rows

LEMMA DoneFacts ==
    ASSUME TranslatorInv, NEW j \in Jobs, Running(j), NEW op \in Called(j),
           Done(j, op) \/ Undone
    PROVE  /\ rows' \subseteq Jobs \X Nat \X Nat
           /\ \A k \in Jobs \ {j} : \A i : Written(k, i)' = Written(k, i)
           /\ \A i : i # at[j] => Written(j, i)' = Written(j, i)
           /\ \A i : i = at[j] => \A e \in Wanted(i, j) :
                /\ Written(j, i)' \in {{}, DOMAIN Statements(e)}
                /\ Done(j, op) => Written(j, i)' = DOMAIN Statements(e)
<1>1. \A i : i = at[j] => \A e \in Wanted(i, j) : Written(j, i) = {}
    BY RunningKnows DEF RunningFacts
<1>2. \A i : i = at[j] => \A e \in Wanted(i, j) : e = op /\ op.mode = "write"
    BY OnlyOne DEF Wanted
<1>3. ASSUME rows' = rows \cup Effects(j, op)
      PROVE  /\ \A k \in Jobs \ {j} : \A i : Written(k, i)' = Written(k, i)
             /\ \A i : i # at[j] => Written(j, i)' = Written(j, i)
             /\ \A i : i = at[j] => \A e \in Wanted(i, j) :
                    Written(j, i)' = DOMAIN Statements(e)
  <2>1. \A k, i : ~(k = j /\ i = at[j]) => Written(k, i)' = Written(k, i)
    BY <1>3, WrittenAfter
  <2>2. \A i : i = at[j] => Written(j, i)' = Written(j, i) \cup DOMAIN Statements(op)
    BY <1>3, WrittenAfter
  <2> QED BY <1>1, <1>2, <2>1, <2>2
<1>4. CASE Undone
  <2>1. \A k, i : Written(k, i)' = Written(k, i)
    BY <1>4 DEF Undone, Written
  <2>2. rows' \subseteq Jobs \X Nat \X Nat
    BY <1>4 DEF Undone, TranslatorInv, RequestsTyped
  <2>3. ASSUME Done(j, op), NEW i, i = at[j], NEW e \in Wanted(i, j)
        PROVE  Written(j, i)' = DOMAIN Statements(e)
    BY <1>2, <1>3, <2>3 DEF Done
  <2> QED BY <1>1, <2>1, <2>2, <2>3
<1>5. CASE ~Undone
  <2>1. rows' = rows \cup Effects(j, op)
    BY <1>5 DEF Done, Undone
  <2>2. rows' \subseteq Jobs \X Nat \X Nat
    BY <2>1, EffectFacts
  <2> QED BY <1>3, <2>1, <2>2
<1> QED BY <1>4, <1>5

(* A request that ends in an error or a panic.                             *)
LEMMA EndInv ==
    ASSUME TranslatorInv, NEW j \in Jobs, Running(j), NEW op \in Called(j),
           NEW how \in {"error", "panic"}, Ends(j, how), Done(j, op) \/ Undone,
           how = "panic" => op.mode = "query" /\ op.reducer \notin Reducers
    PROVE  TranslatorInv'
<1>1. RunningFacts(j) /\ JobSound(j)
    BY RunningKnows
<1>2. /\ UNCHANGED catalogVars /\ ops' = ops /\ at' = at
      /\ outcome' = [outcome EXCEPT ![j] = how] /\ stage' = [stage EXCEPT ![j] = 0]
    BY DEF Ends, catalogVars
<1>3. outcome'[j] = how /\ stage'[j] = 0 /\ outcome[j] = "running"
    BY <1>2 DEF TranslatorInv, RequestsTyped, Running
<1>4. RequestsTyped'
    BY <1>2, DoneFacts DEF TranslatorInv, RequestsTyped
<1>5. JobSound(j)'
  <2>1. ~Running(j)' /\ outcome'[j] # "none" /\ outcome'[j] # "ok" /\ outcome'[j] # "running"
    BY <1>3 DEF Running
  <2>2. ASSUME NEW i \in DOMAIN Steps(j), Passed(j, i)'
        PROVE  \E e \in ops' : e.name = Steps(j)[i].op
    <3>1. CASE i = at[j]
      BY <1>2, <3>1 DEF Called
    <3>2. CASE i # at[j]
      BY <1>1, <1>2, <2>1, <2>2, <3>2, DoneFacts DEF Passed, JobSound
    <3> QED BY <3>1, <3>2
  <2>3. ASSUME NEW i \in DOMAIN Steps(j), NEW e \in Wanted(i, j)'
        PROVE  /\ Written(j, i)' \in {{}, DOMAIN Statements(e)}
               /\ i < at[j] => Written(j, i)' = DOMAIN Statements(e)
               /\ i > at[j] => Written(j, i)' = {}
    <3>1. e \in Wanted(i, j)
      BY <1>2 DEF Wanted
    <3>2. CASE i = at[j]
      BY <1>1, <3>1, <3>2, DoneFacts DEF RunningFacts
    <3>3. CASE i # at[j]
      BY <1>1, <1>3, <3>1, <3>3, DoneFacts DEF JobSound
    <3> QED BY <3>2, <3>3
  <2>4. Called(j)' = Called(j)
    BY <1>2 DEF Called
  <2> QED BY <1>2, <1>3, <2>1, <2>2, <2>3, <2>4 DEF JobSound
<1> QED BY <1>2, <1>4, <1>5, DoneFacts, OtherJobs DEF TranslatorInv, RequestsTyped

(* A request whose operation is not in the catalog, or lacks a parameter.  *)
LEMMA RefuseInv ==
    ASSUME TranslatorInv, NEW j \in Jobs, Refuse(j)
    PROVE  TranslatorInv'
<1>1. RunningFacts(j) /\ JobSound(j)
    BY RunningKnows DEF Refuse
<1>2. /\ UNCHANGED catalogVars /\ ops' = ops /\ at' = at /\ rows' = rows
      /\ outcome' = [outcome EXCEPT ![j] = "error"] /\ stage' = [stage EXCEPT ![j] = 0]
    BY DEF Refuse, AfterError, Ends, catalogVars
<1>3. outcome'[j] = "error" /\ stage'[j] = 0 /\ outcome[j] = "running"
    BY <1>2 DEF TranslatorInv, RequestsTyped, Running, Refuse
<1>4. RequestsTyped'
    BY <1>2 DEF TranslatorInv, RequestsTyped
<1>5. \A k, i : Written(k, i)' = Written(k, i)
    BY <1>2 DEF Written
<1>6. JobSound(j)'
    BY <1>1, <1>2, <1>3, <1>5 DEF JobSound, Running, Passed, Wanted, Called
<1> QED BY <1>2, <1>4, <1>5, <1>6, OtherJobs DEF TranslatorInv, RequestsTyped

(* A request whose operation has done all it does.                         *)
LEMMA AdvanceInv ==
    ASSUME TranslatorInv, NEW j \in Jobs, Running(j), NEW op \in Called(j),
           Advance(j), Done(j, op)
    PROVE  TranslatorInv'
<1>1. RunningFacts(j) /\ JobSound(j)
    BY RunningKnows
<1> DEFINE last == at[j] = Len(Steps(j))
<1>2. /\ UNCHANGED catalogVars /\ ops' = ops
      /\ at' = [at EXCEPT ![j] = IF last THEN at[j] ELSE at[j] + 1]
      /\ outcome' = [outcome EXCEPT ![j] = IF last THEN "ok" ELSE outcome[j]]
      /\ stage' = [stage EXCEPT ![j] = 0]
    BY DEF Advance, StageAfter, catalogVars
<1>3. /\ stage'[j] = 0 /\ outcome[j] = "running"
      /\ last => outcome'[j] = "ok" /\ at'[j] = at[j]
      /\ ~last => outcome'[j] = "running" /\ at'[j] = at[j] + 1
    BY <1>2 DEF TranslatorInv, RequestsTyped, Running
<1>4. RequestsTyped'
    BY <1>1, <1>2, DoneFacts DEF TranslatorInv, RequestsTyped, RunningFacts
<1>5. at[j] \in 1..Len(Steps(j)) /\ at[j] \in Nat /\ Len(Steps(j)) \in Nat
    BY <1>1 DEF RunningFacts
<1>6. JobSound(j)'
  <2>1. ASSUME NEW i \in DOMAIN Steps(j), Passed(j, i)'
        PROVE  \E e \in ops' : e.name = Steps(j)[i].op
    <3>1. CASE i = at[j]
      BY <1>2, <3>1 DEF Called
    <3>2. CASE i # at[j]
      <4>1. i \in 1..Len(Steps(j))
        BY <1>1 DEF RunningFacts
      <4>2. Passed(j, i)
        BY <1>3, <1>5, <2>1, <3>2, <4>1, DoneFacts DEF Passed
      <4> QED BY <1>1, <1>2, <4>2 DEF JobSound
    <3> QED BY <3>1, <3>2
  <2>2. ASSUME NEW i \in DOMAIN Steps(j), NEW e \in Wanted(i, j)'
        PROVE  /\ i <= at[j] => Written(j, i)' = DOMAIN Statements(e)
               /\ i > at[j] => Written(j, i)' = {}
    <3>1. e \in Wanted(i, j) /\ i \in 1..Len(Steps(j))
      BY <1>1, <1>2 DEF Wanted, RunningFacts
    <3>2. CASE i = at[j]
      BY <1>5, <3>1, <3>2, DoneFacts
    <3>3. CASE i # at[j]
      BY <1>1, <1>3, <1>5, <3>1, <3>3, DoneFacts DEF JobSound
    <3> QED BY <3>2, <3>3
  <2>3. DOMAIN Steps(j) = 1..Len(Steps(j))
    BY <1>1 DEF RunningFacts
  <2>4. CASE last
    BY <1>3, <1>5, <2>1, <2>2, <2>3, <2>4 DEF JobSound, Running
  <2>5. CASE ~last
    BY <1>3, <1>5, <2>1, <2>2, <2>3, <2>5 DEF JobSound, Running
  <2> QED BY <2>4, <2>5
<1> QED BY <1>2, <1>4, <1>6, DoneFacts, OtherJobs DEF TranslatorInv, RequestsTyped

LEMMA ExecInv ==
    ASSUME TranslatorInv, NEW j \in Jobs, ExecInTransaction(j)
    PROVE  TranslatorInv'
<1>1. RunningFacts(j) /\ JobSound(j) /\ Running(j)
    BY RunningKnows DEF ExecInTransaction
<1>2. /\ UNCHANGED catalogVars /\ ops' = ops /\ at' = at /\ rows' = rows
      /\ outcome' = outcome /\ stage' = [stage EXCEPT ![j] = stage[j] + 1]
      /\ \E op \in Called(j) : InTransaction(op)
    BY DEF ExecInTransaction, SeenBefore, catalogVars
<1>3. RequestsTyped'
    BY <1>2 DEF TranslatorInv, RequestsTyped
<1>4. \A k, i : Written(k, i)' = Written(k, i)
    BY <1>2 DEF Written
<1>5. JobSound(j)'
    BY <1>1, <1>2, <1>4 DEF JobSound, Running, Passed, Wanted, Called, InTransaction
<1> QED BY <1>2, <1>3, <1>4, <1>5, OtherJobs DEF TranslatorInv, RequestsTyped

LEMMA BeginInv ==
    ASSUME TranslatorInv, NEW j \in Jobs, Begin(j)
    PROVE  TranslatorInv'
<1>1. JobSound(j) /\ outcome[j] = "none" /\ at[j] = 1
    BY JobByJob DEF Begin, JobSound
<1>2. /\ UNCHANGED catalogVars /\ ops' = ops /\ stage' = stage /\ rows' = rows
      /\ at' = [at EXCEPT ![j] = 1]
    BY DEF Begin, catalogVars
<1>3. /\ at'[j] = 1 /\ outcome'[j] \in {"ok", "running", "panic"}
      /\ \A k \in Jobs \ {j} : outcome'[k] = outcome[k]
      /\ outcome' \in [Jobs -> {"none", "running", "ok", "error", "panic"}]
      /\ outcome'[j] = "panic" => IsQuery(j) /\ Request[j].nilParams
      /\ outcome'[j] = "ok" => Steps(j) = <<>>
      /\ outcome'[j] = "running" => Steps(j) # <<>>
  <2> DEFINE how == IF IsQuery(j) /\ Request[j].nilParams THEN "panic"
                    ELSE IF Steps(j) = <<>> THEN "ok" ELSE "running"
  <2>1. /\ how \in {"ok", "running", "panic"}
        /\ how = "panic" => IsQuery(j) /\ Request[j].nilParams
        /\ how = "ok" => Steps(j) = <<>>
        /\ how = "running" => Steps(j) # <<>>
    OBVIOUS
  <2>2. outcome' = [outcome EXCEPT ![j] = how]
    BY DEF Begin
  <2>3. /\ outcome \in [Jobs -> {"none", "running", "ok", "error", "panic"}]
        /\ at \in [Jobs -> Nat \ {0}]
    BY DEF TranslatorInv, RequestsTyped
  <2> HIDE DEF how
  <2>4. outcome'[j] = how
    BY <2>2, <2>3
  <2> QED BY <1>2, <2>1, <2>2, <2>3, <2>4
<1>4. RequestsTyped'
  <2>1. at' \in [Jobs -> Nat \ {0}]
    BY <1>2 DEF TranslatorInv, RequestsTyped
  <2> QED BY <1>2, <1>3, <2>1 DEF TranslatorInv, RequestsTyped
<1>5. \A k, i : Written(k, i)' = Written(k, i)
    BY <1>2 DEF Written
<1>6. at'[j] \in DOMAIN Steps(j) \/ Steps(j) = <<>>
  <2>1. Steps(j) \in Seq([op : STRING, given : SUBSET STRING])
    <3>1. Request[j] \in RequestType
      BY TranslatorAssumption DEF TranslatorAssumption
    <3> QED BY <3>1 DEF RequestType, Steps
  <2> QED BY <1>3, <2>1
<1>7. Steps(j) = <<>> => DOMAIN Steps(j) = {}
    OBVIOUS
<1>8. JobSound(j)'
  <2>1. CASE outcome'[j] = "ok"
    BY <1>1, <1>2, <1>3, <1>7, <2>1 DEF JobSound, Running
  <2>2. CASE outcome'[j] # "ok"
    BY <1>1, <1>2, <1>3, <1>5, <1>6, <2>2
    DEF JobSound, Running, Passed, Wanted
  <2> QED BY <2>1, <2>2
<1> QED BY <1>2, <1>3, <1>4, <1>5, <1>8, OtherJobs DEF TranslatorInv, RequestsTyped

LEMMA RequestInv ==
    ASSUME TranslatorInv, NEW j \in Jobs, RequestStep(j)
    PROVE  TranslatorInv'
<1>1. CASE Read(j)
  <2>1. PICK op \in Called(j) : /\ op.mode # "write"
                                /\ IF op.mode = "query" /\ op.reducer \notin Reducers
                                   THEN Ends(j, "panic") ELSE Advance(j)
    BY <1>1 DEF Read
  <2>2. Running(j) /\ Done(j, op)
    BY <1>1, <2>1 DEF Read, Done
  <2> QED BY <2>1, <2>2, EndInv, AdvanceInv
<1>2. CASE Write(j)
  <2>1. PICK op \in Called(j) : TakesEffect(j, op) /\ rows' = rows \cup Effects(j, op)
    BY <1>2 DEF Write
  <2>2. Running(j) /\ Done(j, op) /\ Advance(j)
    BY <1>2, <2>1 DEF Write, Done
  <2> QED BY <2>2, AdvanceInv
<1>3. CASE Fail(j)
  <2>1. PICK op \in Called(j) :
            /\ Executable(j, op)
            /\ \/ UNCHANGED rows
               \/ TakesEffect(j, op) /\ rows' = rows \cup Effects(j, op)
    BY <1>3, Zenon DEF Fail
  <2>2. Done(j, op) \/ Undone
    BY <2>1 DEF Done, Undone
  <2>3. Running(j) /\ Ends(j, "error")
    BY <1>3 DEF Fail, AfterError
  <2> QED BY <2>2, <2>3, EndInv
<1> QED BY <1>1, <1>2, <1>3, BeginInv, RefuseInv, ExecInv DEF RequestStep

LEMMA TranslatorStep == TranslatorInv /\ [Next]_vars => TranslatorInv'
<1> SUFFICES ASSUME TranslatorInv, [Next]_vars PROVE TranslatorInv'
    OBVIOUS
<1>1. ASSUME UNCHANGED vars PROVE TranslatorInv'
  <2>1. UNCHANGED catalogVars /\ UNCHANGED requestVars
    BY <1>1 DEF vars
  <2>2. \A j, i : Written(j, i)' = Written(j, i)
    BY <2>1 DEF Written, requestVars
  <2>3. ASSUME NEW k \in Jobs PROVE JobSound(k)'
    <3>1. JobSound(k)
      BY JobByJob
    <3> QED BY <2>1, <2>2, <3>1
         DEF JobSound, Running, Called, InTransaction, Passed, Wanted,
             catalogVars, requestVars
  <2>4. CatalogSound' /\ RequestsTyped'
    BY <2>1, JobByJob DEF CatalogSound, CatalogTyped, OpsTyped, NamesAreUnique, IsSound,
        RequestsTyped, catalogVars, requestVars
  <2> QED BY <2>3, <2>4, JobByJob
<1> QED BY <1>1, LoadInv, ValidateInv, RequestInv DEF Next

LEMMA TranslatorHolds == Spec => []TranslatorInv
BY InitInv, TranslatorStep, PTL DEF Spec

(* Every variable keeps its type, and an operation name its one meaning.   *)
THEOREM TranslatorTypeCorrect == Spec => []TypeOK
<1>1. TranslatorInv => TypeOK
    BY DEF TranslatorInv, CatalogTyped, OpsTyped, NamesAreUnique, RequestsTyped,
        StagedInTransaction, TypeOK
<1> QED BY <1>1, TranslatorHolds, PTL

(* Whatever files are loaded when, and wherever the database fails, what a *)
(* request reports is what it did.                                         *)
THEOREM OutcomesAreTrue == Spec => []OutcomeIsTrue
<1>1. TranslatorInv => OutcomeIsTrue
    BY DEF TranslatorInv
<1> QED BY <1>1, TranslatorHolds, PTL

(* Whatever keys Validate and the executor are given, a request panics     *)
(* only in a query without parameters, one whose operation Validate never  *)
(* saw, or one whose reducer it accepted and the executor does not have;   *)
(* and later loads do not change what Validate has seen.                   *)
THEOREM PanicsAlwaysHaveCause == Spec => []PanicsHaveCause
<1>1. TranslatorInv => PanicsHaveCause
  <2> SUFFICES ASSUME TranslatorInv PROVE PanicsHaveCause
    OBVIOUS
  <2>1. CheckedIsSound
    BY DEF TranslatorInv
  <2>2. \A op \in checked : op.mode = "query" => op.reducer \in CheckedReducers
    BY <2>1 DEF CheckedIsSound, IsSound
  <2> QED BY <2>1, <2>2 DEF CheckedIsSound, PanicsHaveCause
<1> QED BY <1>1, TranslatorHolds, PTL
=============================================================================
