---------------------------- MODULE BackendsProofs ----------------------------
(***************************************************************************)
(* Ownership and certified content of live states, for every back end,      *)
(* number of materializations and store: who can discard a state, what a    *)
(* failure may leave behind, and that a certificate says what a store holds.*)
(*                                                                          *)
(* The last part composes them with their callers (Rebinding): what a       *)
(* transition leaves of a store, what its certificate says of that, and     *)
(* what the caller makes of the certificate.                                *)
(*                                                                          *)
(* Every step of every handler has one of six effects on ownership (Quiet,  *)
(* Takes, Registers, Gives, Forgets, Loses) and is of one of nine kinds for *)
(* content (Kind); each invariant is proved from these, and each handler is *)
(* shown to have an effect and a kind.                                      *)
(***************************************************************************)
EXTENDS Rebinding, FiniteSetTheorems, TLAPS

Nothing == {"idle", "create"}
Making  == {"ingest", "bind", "teardown"}
Holding == {"own", "certified", "observed", "failed", "evidence", "apply", "verify"}

Shape ==
  /\ DOMAIN pc = Tasks /\ DOMAIN held = Tasks /\ DOMAIN frame = Tasks
  /\ DOMAIN context = States /\ DOMAIN rows = States
  /\ \A t \in Tasks : {"handle", "inv", "art", "pre", "target"} \subseteq DOMAIN frame[t]
  /\ alive \subseteq States

\* A task makes or retires the handle of its frame, holds a state, or has neither; no two
\* tasks have the same, and what they have is live.
Ownership ==
  /\ \A t \in Tasks :
       \/ pc[t] \in Nothing /\ held[t] = NoState /\ frame[t].handle = NoState
       \/ pc[t] \in Making  /\ held[t] = NoState /\ frame[t].handle \in alive
       \/ pc[t] \in Holding /\ held[t] \in alive /\ frame[t].handle = NoState
  /\ \A t, u \in Tasks : t # u =>
       /\ held[t] # NoState => held[t] # held[u] /\ held[t] # frame[u].handle
       /\ frame[t].handle # NoState => frame[t].handle # frame[u].handle

Registered == \A s \in States : context[s] # Unbound => \E t \in Tasks : held[t] = s

Owners ==
  /\ profile # "mem0" => \A r, s \in alive : r = s
  /\ profile \in {"a-mem", "graphiti"} => alive = {owner} \ {NoState}

\* Rows are of states that are live and were ingested.
Ingested ==
  /\ \A s \in States \ alive : rows[s] = Unbound
  /\ \A t \in Tasks : pc[t] = "ingest" => rows[frame[t].handle] = Unbound
  /\ \A s \in alive : Accounted(s) \/ (profile # "memos" /\ rows[s] = Unbound)

IInv == Shape /\ Ownership /\ Registered /\ Owners /\ Ingested

-----------------------------------------------------------------------------
(* The effects.                                                             *)

Others(t) ==
  /\ DOMAIN pc' = Tasks /\ DOMAIN held' = Tasks /\ DOMAIN frame' = Tasks
  /\ DOMAIN context' = States /\ DOMAIN rows' = States
  /\ {"handle", "inv", "art", "pre", "target"} \subseteq DOMAIN frame'[t]
  /\ \A u \in Tasks \ {t} : pc'[u] = pc[u] /\ held'[u] = held[u] /\ frame'[u] = frame[u]
  /\ profile' = profile
  /\ profile # "graphiti" => tokens' \subseteq tokens

Quiet(t) ==
  /\ Others(t)
  /\ \/ pc[t] \in Nothing /\ pc'[t] \in Nothing
     \/ pc[t] \in Making  /\ pc'[t] \in Making \ {"ingest"}
     \/ pc[t] \in Holding /\ pc'[t] \in Holding
  /\ held'[t] = held[t] /\ frame'[t].handle = frame[t].handle
  /\ \A s \in States : rows'[s] = rows[s] \/ s = held[t] \/ s = frame[t].handle
  /\ UNCHANGED <<alive, owner, context>>

Takes(t) ==
  /\ Others(t)
  /\ pc[t] = "create" /\ pc'[t] = "ingest"
  /\ UNCHANGED <<held, context, rows>>
  /\ \E s \in States \ alive :
       /\ frame'[t].handle = s /\ alive' = alive \cup {s}
       /\ \/ profile = "mem0"
          \/ profile = "memos" /\ alive = {}
          \/ alive = {} /\ owner' = s

Registers(t) ==
  /\ Others(t)
  /\ pc[t] = "bind" /\ pc'[t] = "own"
  /\ held'[t] = frame[t].handle /\ frame'[t].handle = NoState
  /\ \A s \in States : context'[s] = context[s] \/ s = frame[t].handle
  /\ UNCHANGED <<alive, owner, rows>>

Gives(t) ==
  /\ Others(t)
  /\ held[t] # NoState /\ pc'[t] = "teardown"
  /\ held'[t] = NoState /\ frame'[t].handle = held[t]
  /\ \A s \in States : context'[s] = IF s = held[t] THEN Unbound ELSE context[s]
  /\ UNCHANGED <<alive, owner, rows>>

Forgets(t) ==
  /\ Others(t)
  /\ pc[t] \in Making /\ pc'[t] = "idle"
  /\ held'[t] = held[t] /\ frame'[t].handle = NoState
  /\ alive' = alive \ {frame[t].handle}
  /\ owner' = IF owner = frame[t].handle THEN NoState ELSE owner
  /\ \A s \in States : /\ context'[s] = IF s = frame[t].handle THEN Unbound ELSE context[s]
                       /\ rows'[s] = IF s = frame[t].handle THEN Unbound ELSE rows[s]

Loses(t) ==
  /\ Others(t)
  /\ pc[t] = "ingest" /\ pc'[t] = "idle" /\ profile # "memos"
  /\ held'[t] = held[t] /\ frame'[t].handle = NoState
  /\ UNCHANGED <<alive, owner, context, rows>>

Effect(t) == Quiet(t) \/ Takes(t) \/ Registers(t) \/ Gives(t) \/ Forgets(t) \/ Loses(t)

-----------------------------------------------------------------------------
(* The effects keep the invariant.                                          *)

LEMMA QuietKeeps == ASSUME IInv, NEW t \in Tasks, Quiet(t) PROVE IInv'
<1> USE BackendAssumption DEF IInv
<1>1. Shape'
  BY DEF Quiet, Others, Shape
<1>2. Ownership'
  BY DEF Quiet, Others, Ownership, Nothing, Making, Holding
<1>3. Registered' /\ Owners'
  BY DEF Quiet, Others, Registered, Owners
<1>4. \A u \in Tasks : held'[u] = held[u] /\ frame'[u].handle = frame[u].handle
  BY DEF Quiet, Others
<1>5. Ingested'
  <2>1. \A s \in States \ alive : rows'[s] = Unbound
    BY DEF Quiet, Ingested, Ownership
  <2>2. \A u \in Tasks : pc'[u] = "ingest" => rows'[frame'[u].handle] = Unbound
    <3> SUFFICES ASSUME NEW u \in Tasks, pc'[u] = "ingest" PROVE rows'[frame'[u].handle] = Unbound
      OBVIOUS
    <3>1. u # t /\ pc[u] = "ingest"
      BY DEF Quiet, Others, Nothing, Making, Holding
    <3>2. frame[u].handle \in States /\ frame[u].handle # held[t] /\ frame[u].handle # frame[t].handle
      BY <3>1 DEF Ownership, Shape, Making, Nothing, Holding
    <3> QED
      BY <1>4, <3>1, <3>2 DEF Quiet, Ingested
  <2>3. \A s \in alive : (\E u \in Tasks : held'[u] = s \/ frame'[u].handle = s)
                           \/ (profile # "memos" /\ rows'[s] = Unbound)
    BY <1>1, <1>4 DEF Quiet, Ingested, Accounted, Shape
  <2> QED
    BY <2>1, <2>2, <2>3 DEF Ingested, Accounted, Quiet, Others
<1> QED
  BY <1>1, <1>2, <1>3, <1>5

LEMMA TakesKeeps == ASSUME IInv, NEW t \in Tasks, Takes(t) PROVE IInv'
<1> USE BackendAssumption DEF IInv
<1>1. PICK s \in States \ alive :
        /\ frame'[t].handle = s /\ alive' = alive \cup {s}
        /\ \/ profile = "mem0"
           \/ profile = "memos" /\ alive = {}
           \/ alive = {} /\ owner' = s
  BY DEF Takes
<1>2. Shape'
  BY <1>1 DEF Takes, Others, Shape
<1>3. \A u \in Tasks : held'[u] = held[u] /\ (u # t => frame'[u] = frame[u] /\ pc'[u] = pc[u])
  BY DEF Takes, Others
<1>4. held[t] = NoState /\ frame[t].handle = NoState
  BY DEF Takes, Ownership, Nothing, Making, Holding
<1>5. \A u \in Tasks : held[u] # s /\ frame[u].handle # s
  BY DEF Ownership
<1>6. Ownership'
  BY <1>1, <1>3, <1>4, <1>5 DEF Takes, Ownership, Making
<1>7. Registered' /\ Owners'
  BY <1>1, <1>3 DEF Takes, Others, Registered, Owners
<1>8. Ingested'
  <2>1. \A r \in States \ alive' : rows'[r] = Unbound
    BY <1>1 DEF Takes, Ingested
  <2>2. \A u \in Tasks : pc'[u] = "ingest" => rows'[frame'[u].handle] = Unbound
    BY <1>1, <1>3 DEF Takes, Ingested
  <2>3. \A r \in alive' : (\E u \in Tasks : held'[u] = r \/ frame'[u].handle = r)
                            \/ (profile # "memos" /\ rows'[r] = Unbound)
    BY <1>1, <1>3, <1>4 DEF Takes, Ingested, Accounted
  <2> QED
    BY <2>1, <2>2, <2>3 DEF Ingested, Accounted, Takes, Others
<1> QED
  BY <1>2, <1>6, <1>7, <1>8

LEMMA RegistersKeeps == ASSUME IInv, NEW t \in Tasks, Registers(t) PROVE IInv'
<1> USE BackendAssumption DEF IInv
<1>1. Shape'
  BY DEF Registers, Others, Shape
<1>2. \A u \in Tasks \ {t} : held'[u] = held[u] /\ frame'[u] = frame[u] /\ pc'[u] = pc[u]
  BY DEF Registers, Others
<1>3. held[t] = NoState /\ frame[t].handle \in alive
  BY DEF Registers, Ownership, Nothing, Making, Holding
<1>4. Ownership'
  BY <1>2, <1>3 DEF Registers, Ownership, Holding
<1>5. Registered' /\ Owners'
  BY <1>2, <1>3 DEF Registers, Others, Registered, Owners
<1>6. Ingested'
  <2>1. \A r \in alive : (\E u \in Tasks : held'[u] = r \/ frame'[u].handle = r)
                           \/ (profile # "memos" /\ rows'[r] = Unbound)
    BY <1>2, <1>3 DEF Registers, Ingested, Accounted
  <2> QED
    BY <1>2, <2>1 DEF Registers, Others, Ingested, Accounted
<1> QED
  BY <1>1, <1>4, <1>5, <1>6

LEMMA GivesKeeps == ASSUME IInv, NEW t \in Tasks, Gives(t) PROVE IInv'
<1> USE BackendAssumption DEF IInv
<1>1. Shape'
  BY DEF Gives, Others, Shape
<1>2. \A u \in Tasks \ {t} : held'[u] = held[u] /\ frame'[u] = frame[u] /\ pc'[u] = pc[u]
  BY DEF Gives, Others
<1>3. held[t] \in alive /\ frame[t].handle = NoState
  BY DEF Gives, Ownership
<1>4. Ownership'
  BY <1>2, <1>3 DEF Gives, Ownership, Making
<1>5. Registered' /\ Owners'
  BY <1>2, <1>3 DEF Gives, Others, Registered, Owners
<1>6. Ingested'
  <2>1. \A r \in alive : (\E u \in Tasks : held'[u] = r \/ frame'[u].handle = r)
                           \/ (profile # "memos" /\ rows'[r] = Unbound)
    BY <1>2, <1>3 DEF Gives, Ingested, Accounted
  <2> QED
    BY <1>2, <2>1 DEF Gives, Others, Ingested, Accounted
<1> QED
  BY <1>1, <1>4, <1>5, <1>6

LEMMA ForgetsKeeps == ASSUME IInv, NEW t \in Tasks, Forgets(t) PROVE IInv'
<1> USE BackendAssumption DEF IInv
<1>1. Shape'
  BY DEF Forgets, Others, Shape
<1>2. \A u \in Tasks \ {t} : held'[u] = held[u] /\ frame'[u] = frame[u] /\ pc'[u] = pc[u]
  BY DEF Forgets, Others
<1>3. held[t] = NoState /\ frame[t].handle \in alive
  BY DEF Forgets, Ownership, Nothing, Making, Holding
<1>4. \A u \in Tasks \ {t} : held[u] # frame[t].handle /\ frame[u].handle # frame[t].handle
  BY <1>3 DEF Ownership, Shape
<1>5. Ownership'
  BY <1>2, <1>3, <1>4 DEF Forgets, Ownership, Nothing
<1>6. Registered' /\ Owners'
  BY <1>2, <1>3, <1>4 DEF Forgets, Others, Registered, Owners, Shape
<1>7. Ingested'
  <2>1. \A r \in States \ alive' : rows'[r] = Unbound
    BY DEF Forgets, Ingested
  <2>2. \A u \in Tasks : pc'[u] = "ingest" => rows'[frame'[u].handle] = Unbound
    BY <1>2, <1>4 DEF Forgets, Ingested, Ownership, Shape, Nothing, Making, Holding
  <2>3. \A r \in alive' : (\E u \in Tasks : held'[u] = r \/ frame'[u].handle = r)
                            \/ (profile # "memos" /\ rows'[r] = Unbound)
    BY <1>2, <1>3 DEF Forgets, Ingested, Accounted, Shape
  <2> QED
    BY <2>1, <2>2, <2>3 DEF Ingested, Accounted, Forgets, Others
<1> QED
  BY <1>1, <1>5, <1>6, <1>7

LEMMA LosesKeeps == ASSUME IInv, NEW t \in Tasks, Loses(t) PROVE IInv'
<1> USE BackendAssumption DEF IInv
<1>1. Shape'
  BY DEF Loses, Others, Shape
<1>2. \A u \in Tasks \ {t} : held'[u] = held[u] /\ frame'[u] = frame[u] /\ pc'[u] = pc[u]
  BY DEF Loses, Others
<1>3. held[t] = NoState /\ frame[t].handle \in alive /\ rows[frame[t].handle] = Unbound
  BY DEF Loses, Ownership, Nothing, Making, Holding, Ingested
<1>4. Ownership'
  BY <1>2, <1>3 DEF Loses, Ownership, Nothing
<1>5. Registered' /\ Owners'
  BY <1>2, <1>3 DEF Loses, Others, Registered, Owners, Shape
<1>6. Ingested'
  <2>1. \A r \in alive : (\E u \in Tasks : held'[u] = r \/ frame'[u].handle = r)
                           \/ (profile # "memos" /\ rows'[r] = Unbound)
    BY <1>2, <1>3 DEF Loses, Ingested, Accounted
  <2> QED
    BY <1>2, <2>1 DEF Loses, Others, Ingested, Accounted
<1> QED
  BY <1>1, <1>4, <1>5, <1>6
-----------------------------------------------------------------------------
(* The handlers have the effects.                                           *)

LEMMA SharedEffects ==
  ASSUME IInv, NEW t \in Tasks, profile' = profile
  PROVE  /\ RootRequest(t) => Quiet(t)
         /\ Discard(t) => Gives(t)
         /\ TearDown(t) => Forgets(t)
<1> USE BackendAssumption DEF IInv, Shape
<1>1. ASSUME RootRequest(t) PROVE Quiet(t)
  BY <1>1 DEF RootRequest, At, Goto, Return, NoRoot, NoFrame, Quiet, Others, Nothing, Ownership,
     Making, Holding, storeVars, protocolVars, adapterVars
<1>2. ASSUME Discard(t) PROVE Gives(t)
  BY <1>2 DEF Discard, Goto, Gives, Others, storeVars, adapterVars
<1>3. ASSUME TearDown(t) PROVE Forgets(t)
  BY <1>3 DEF TearDown, At, Return, Goto, Forget, NoFrame, Forgets, Others, Making
<1> QED
  BY <1>1, <1>2, <1>3

\* A call on a held state that fails, or fixes its target, moves no ownership.
LEMMA FailQuiet ==
  ASSUME IInv, NEW t \in Tasks, profile' = profile, pc[t] \in Holding, Fail(t),
         DOMAIN rows' = States, \A s \in States \ {held[t]} : rows'[s] = rows[s],
         UNCHANGED <<alive, owner, context>>, profile # "graphiti" => tokens' = tokens
  PROVE  Quiet(t)
BY BackendAssumption DEF IInv, Shape, Fail, Goto, Return, NoFrame, Quiet, Others, Holding, Ownership,
   Nothing, Making

LEMMA AimQuiet ==
  ASSUME IInv, NEW t \in Tasks, profile' = profile, pc[t] \in Holding,
         NEW s, NEW art, NEW e, NEW pre, NEW label \in Holding, Aim(t, s, art, e, pre, label),
         UNCHANGED <<rows, alive, owner, context, tokens>>
  PROVE  Quiet(t)
<1>1. frame' = [frame EXCEPT ![t] = [frame[t] EXCEPT !.art = art, !.pre = pre, !.target = <<e>>]]
  BY DEF Aim
<1>2. \A u \in Tasks \ {t} : frame'[u] = frame[u]
  BY <1>1 DEF IInv, Shape
<1>3. /\ {"handle", "inv", "art", "pre", "target"} \subseteq DOMAIN frame'[t]
      /\ frame'[t].handle = frame[t].handle /\ DOMAIN frame' = Tasks
  BY <1>1 DEF IInv, Shape
<1> QED
  BY <1>2, <1>3 DEF IInv, Shape, Aim, Goto, Quiet, Others

LEMMA Mem0Effects ==
  ASSUME IInv, NEW t \in Tasks, profile = "mem0", Mem0Step(t), profile' = profile
  PROVE  Effect(t)
<1> USE BackendAssumption DEF IInv, Shape
<1>1. CASE Mem0Root(t)
  BY <1>1, SharedEffects DEF Mem0Root, Effect
<1>2. CASE Mem0Create(t)
  BY <1>2 DEF Mem0Create, At, Goto, Return, NoRoot, NoFrame, Effect, Quiet, Takes, Others, Nothing,
     Ownership, Making, Holding, storeVars, protocolVars, adapterVars
<1>3. CASE Mem0Ingest(t)
  BY <1>3 DEF Mem0Ingest, At, Goto, Return, NoRoot, NoFrame, Effect, Quiet, Loses, Others, Making,
     Ownership, storeVars, protocolVars, adapterVars
<1>4. CASE Mem0Bind(t)
  BY <1>4 DEF Mem0Bind, At, Goto, Return, Abandon, Register, NoFrame, Effect, Quiet, Registers,
     Others,
     Making, Ownership, storeVars, protocolVars, adapterVars
<1>5. CASE Mem0Retire(t)
  BY <1>5, SharedEffects DEF Mem0Retire, Effect
<1>6. CASE Mem0Replay(t)
  <2>1. pc[t] \in Holding /\ "apply" \in Holding /\ UNCHANGED <<rows, alive, owner, context,
     tokens>>
    BY <1>6 DEF Mem0Replay, At, Holding, storeVars, protocolVars, adapterVars
  <2>2. Fail(t) \/ \E art, e, pre : Aim(t, held[t], art, e, pre, "apply")
    BY <1>6 DEF Mem0Replay
  <2> QED
    BY <2>1, <2>2, FailQuiet, AimQuiet DEF Effect
<1>7. CASE Mem0Apply(t)
  BY <1>7 DEF Mem0Apply, At, Goto, Return, Fail, NoFrame, Effect, Quiet, Others, Holding,
     Ownership, Nothing, Making, storeVars, protocolVars, adapterVars
<1>8. CASE Mem0Verify(t)
  BY <1>8 DEF Mem0Verify, At, Goto, Return, Fail, Accept, NoFrame, Effect, Quiet, Others, Holding,
     Ownership, Nothing, Making, storeVars, protocolVars, adapterVars
<1>9. CASE Mem0Certify(t)
  BY <1>9 DEF Mem0Certify, Read, At, Goto, Return, Fail, NoFrame, Effect, Quiet, Others, Holding,
     Ownership, Nothing, Making, storeVars, protocolVars, adapterVars
<1>10. CASE Mem0Retrieve(t)
  BY <1>10 DEF Mem0Retrieve, Read, At, Goto, Return, Fail, NoFrame, Effect, Quiet, Others, Holding,
     Ownership, Nothing, Making, storeVars, protocolVars, adapterVars
<1> QED
  BY <1>1, <1>2, <1>3, <1>4, <1>5, <1>6, <1>7, <1>8, <1>9, <1>10 DEF Mem0Step

LEMMA AMemEffects ==
  ASSUME IInv, NEW t \in Tasks, profile = "a-mem", AMemStep(t), profile' = profile
  PROVE  Effect(t)
<1> USE BackendAssumption DEF IInv, Shape
<1>1. CASE AMemRoot(t)
  BY <1>1, SharedEffects DEF AMemRoot, Effect
<1>2. CASE AMemCreate(t)
  BY <1>2 DEF AMemCreate, AMemBusy,
     At, Goto, Return, NoRoot, NoFrame, Effect, Quiet, Takes, Others, Ownership, Nothing, Making,
     Holding, storeVars, protocolVars, adapterVars
<1>3. CASE AMemIngest(t)
  BY <1>3 DEF AMemIngest, At, Goto, Return, NoRoot, NoFrame, Effect, Quiet, Loses, Others,
     Ownership, Nothing, Making, Holding, storeVars, protocolVars, adapterVars
<1>4. CASE AMemBind(t)
  BY <1>4 DEF AMemBind, At, Goto, Return, Abandon, Register, NoFrame, Effect, Quiet, Registers,
     Others,
     Ownership, Nothing, Making, Holding, storeVars, protocolVars, adapterVars
<1>5. CASE AMemRetire(t)
  BY <1>5, SharedEffects DEF AMemRetire, Effect
<1>6. CASE AMemReplay(t)
  <2>1. pc[t] \in Holding /\ "apply" \in Holding /\ UNCHANGED <<rows, alive, owner, context,
     tokens>>
    BY <1>6 DEF AMemReplay, At, Holding, storeVars, protocolVars, adapterVars
  <2>2. Fail(t) \/ \E art, e, pre : Aim(t, held[t], art, e, pre, "apply")
    BY <1>6, <2>1 DEF AMemReplay
  <2> QED
    BY <2>1, <2>2, FailQuiet, AimQuiet DEF Effect
<1>7. CASE AMemApply(t)
  BY <1>7 DEF AMemApply, At, Goto, Return, Fail, NoFrame, Effect, Quiet, Others,
     Ownership, Nothing, Making, Holding, storeVars, protocolVars, adapterVars
<1>8. CASE AMemVerify(t)
  BY <1>8 DEF AMemVerify, Accept, At, Goto, Return, Fail, NoFrame, Effect, Quiet, Others,
     Ownership, Nothing, Making, Holding, storeVars, protocolVars, adapterVars
<1>9. CASE AMemCertify(t)
  BY <1>9 DEF AMemCertify, Read, At, Goto, Return, Fail, NoFrame, Effect, Quiet, Others,
     Ownership, Nothing, Making, Holding, storeVars, protocolVars, adapterVars
<1>10. CASE AMemRetrieve(t)
  BY <1>10 DEF AMemRetrieve, Read, At, Goto, Return, Fail, NoFrame, Effect, Quiet, Others,
     Ownership, Nothing, Making, Holding, storeVars, protocolVars, adapterVars
<1> QED
  BY <1>1, <1>2, <1>3, <1>4, <1>5, <1>6, <1>7, <1>8, <1>9, <1>10 DEF AMemStep

LEMMA GraphitiEffects ==
  ASSUME IInv, NEW t \in Tasks, profile = "graphiti", GraphitiStep(t), profile' = profile
  PROVE  Effect(t)
<1> USE BackendAssumption DEF IInv, Shape
<1>1. CASE GraphitiRoot(t)
  BY <1>1, SharedEffects DEF GraphitiRoot, Effect
<1>2. CASE GraphitiCreate(t)
  BY <1>2 DEF GraphitiCreate, GraphitiBusy,
     At, Goto, Return, NoRoot, NoFrame, Effect, Quiet, Takes, Others, Ownership, Nothing, Making,
     Holding, storeVars, protocolVars, adapterVars
<1>3. CASE GraphitiIngest(t)
  BY <1>3 DEF GraphitiIngest, At, Goto, Return, NoRoot, NoFrame, Effect, Quiet, Loses, Others,
     Ownership, Nothing, Making, Holding, storeVars, protocolVars, adapterVars
<1>4. CASE GraphitiBind(t)
  BY <1>4 DEF GraphitiBind, At, Goto, Return, Abandon, Register, NoFrame, Effect, Quiet,
     Registers, Others,
     Ownership, Nothing, Making, Holding, storeVars, protocolVars, adapterVars
<1>5. CASE GraphitiRetire(t)
  BY <1>5, SharedEffects DEF GraphitiRetire, Effect
<1>6. CASE GraphitiReplay(t)
  <2>1. pc[t] \in Holding /\ "apply" \in Holding /\ "evidence" \in Holding /\ UNCHANGED <<rows,
     alive, owner, context, tokens>>
    BY <1>6 DEF GraphitiReplay, At, Holding, storeVars, protocolVars, adapterVars
  <2>2. Fail(t) \/ \E art, e, pre : \E label \in Holding : Aim(t, held[t], art, e, pre, label)
    BY <1>6, <2>1 DEF GraphitiReplay
  <2> QED
    BY <2>1, <2>2, FailQuiet, AimQuiet DEF Effect
<1>7. CASE GraphitiEvidence(t)
  BY <1>7 DEF GraphitiEvidence, At, Goto, Return, Fail, NoFrame, Effect, Quiet, Others,
     Ownership, Nothing, Making, Holding, storeVars, protocolVars, adapterVars
<1>8. CASE GraphitiDelete(t)
  BY <1>8 DEF GraphitiDelete, At, Goto, Return, Fail, NoFrame, Effect, Quiet, Others,
     Ownership, Nothing, Making, Holding, storeVars, protocolVars, adapterVars
<1>9. CASE GraphitiUpdate(t)
  BY <1>9 DEF GraphitiUpdate, At, Goto, Return, Fail, NoFrame, Effect, Quiet, Others,
     Ownership, Nothing, Making, Holding, storeVars, protocolVars, adapterVars
<1>10. CASE GraphitiVerify(t)
  BY <1>10 DEF GraphitiVerify, Accept, At, Goto, Return, Fail, NoFrame, Effect, Quiet, Others,
     Ownership, Nothing, Making, Holding, storeVars, protocolVars, adapterVars
<1>11. CASE GraphitiCertify(t)
  BY <1>11 DEF GraphitiCertify, Read, At, Goto, Return, Fail, NoFrame, Effect, Quiet, Others,
     Ownership, Nothing, Making, Holding, storeVars, protocolVars, adapterVars
<1>12. CASE GraphitiRetrieve(t)
  BY <1>12 DEF GraphitiRetrieve, Read, At, Goto, Return, Fail, NoFrame, Effect, Quiet, Others,
     Ownership, Nothing, Making, Holding, storeVars, protocolVars, adapterVars
<1> QED
  BY <1>1, <1>2, <1>3, <1>4, <1>5, <1>6, <1>7, <1>8, <1>9, <1>10, <1>11, <1>12 DEF GraphitiStep

LEMMA MemosEffects ==
  ASSUME IInv, NEW t \in Tasks, profile = "memos", MemosStep(t), profile' = profile
  PROVE  Effect(t)
<1> USE BackendAssumption DEF IInv, Shape
<1>1. CASE MemosRoot(t)
  BY <1>1, SharedEffects DEF MemosRoot, Effect
<1>2. CASE MemosCreate(t)
  BY <1>2 DEF MemosCreate, MemosBusy,
     At, Goto, Return, NoRoot, NoFrame, Effect, Quiet, Takes, Others, Ownership, Nothing, Making,
     Holding, storeVars, protocolVars, adapterVars
<1>3. CASE MemosIngest(t)
  BY <1>3 DEF MemosIngest, MemosIngestFails, Forget, Forgets, At, Goto, Return, NoRoot, NoFrame,
     Effect, Quiet, Loses, Others,
     Ownership, Nothing, Making, Holding, storeVars, protocolVars, adapterVars
<1>4. CASE MemosBind(t)
  BY <1>4 DEF MemosBind, At, Goto, Return, Abandon, Register, NoFrame, Effect, Quiet, Registers,
     Others,
     Ownership, Nothing, Making, Holding, storeVars, protocolVars, adapterVars
<1>5. CASE MemosRetire(t)
  BY <1>5, SharedEffects DEF MemosRetire, Effect
<1>6. CASE MemosReplay(t)
  <2>1. pc[t] \in Holding /\ "apply" \in Holding /\ UNCHANGED <<rows, alive, owner, context,
     tokens>>
    BY <1>6 DEF MemosReplay, At, Holding, storeVars, protocolVars, adapterVars
  <2>2. Fail(t) \/ \E art, e, pre : Aim(t, held[t], art, e, pre, "apply")
    BY <1>6, <2>1 DEF MemosReplay
  <2> QED
    BY <2>1, <2>2, FailQuiet, AimQuiet DEF Effect
<1>7. CASE MemosApply(t)
  BY <1>7 DEF MemosApply, At, Goto, Return, Fail, NoFrame, Effect, Quiet, Others,
     Ownership, Nothing, Making, Holding, storeVars, protocolVars, adapterVars
<1>8. CASE MemosVerify(t)
  BY <1>8 DEF MemosVerify, Accept, At, Goto, Return, Fail, NoFrame, Effect, Quiet, Others,
     Ownership, Nothing, Making, Holding, storeVars, protocolVars, adapterVars
<1>9. CASE MemosCertify(t)
  BY <1>9 DEF MemosCertify, Read, At, Goto, Return, Fail, NoFrame, Effect, Quiet, Others,
     Ownership, Nothing, Making, Holding, storeVars, protocolVars, adapterVars
<1>10. CASE MemosRetrieve(t)
  BY <1>10 DEF MemosRetrieve, Read, At, Goto, Return, Fail, NoFrame, Effect, Quiet, Others,
     Ownership, Nothing, Making, Holding, storeVars, protocolVars, adapterVars
<1> QED
  BY <1>1, <1>2, <1>3, <1>4, <1>5, <1>6, <1>7, <1>8, <1>9, <1>10 DEF MemosStep

-----------------------------------------------------------------------------
LEMMA EffectKeeps == ASSUME IInv, NEW t \in Tasks, Effect(t) PROVE IInv'
BY QuietKeeps, TakesKeeps, RegistersKeeps, GivesKeeps, ForgetsKeeps, LosesKeeps DEF Effect

LEMMA InitIInv == Init => IInv
<1> SUFFICES ASSUME NEW p \in Profiles, InitWith(p) PROVE IInv
  BY DEF Init
<1>1. Shape /\ Ownership
  BY DEF InitWith, NoFrame, Shape, Ownership, Nothing
<1>2. Registered /\ Owners /\ Ingested
  BY DEF InitWith, Registered, Owners, Ingested
<1> QED
  BY <1>1, <1>2 DEF IInv

LEMMA NextIInv == IInv /\ [Next]_vars => IInv'
<1> SUFFICES ASSUME IInv, [Next]_vars PROVE IInv'
  OBVIOUS
<1>1. ASSUME NEW t \in Tasks, Step(t) PROVE IInv'
  <2>1. profile' = profile
    BY <1>1 DEF Step
  <2>2. CASE Discard(t)
    BY <2>1, <2>2, SharedEffects, EffectKeeps DEF Effect
  <2>3. CASE Handler(t)
    BY <2>1, <2>3, Mem0Effects, AMemEffects, GraphitiEffects, MemosEffects, EffectKeeps DEF Handler
  <2> QED
    BY <1>1, <2>2, <2>3 DEF Step
<1>2. CASE UNCHANGED vars
  BY <1>2 DEF vars, callVars, storeVars, protocolVars, adapterVars, IInv, Shape, Ownership,
     Registered,
     Owners, Ingested, Accounted
<1> QED
  BY <1>1, <1>2 DEF Next

LEMMA InductiveInvariant == Spec => []IInv
BY InitIInv, NextIInv, PTL DEF Spec

-----------------------------------------------------------------------------
\* At most one live state in a process of A-Mem, Graphiti or MemOS, and the class-level
\* owner is exactly that state, through every failure of every call.
THEOREM OneOwner == Spec => []SingleOwner
<1>1. IInv => SingleOwner
  <2> SUFFICES ASSUME IInv PROVE SingleOwner
    OBVIOUS
  <2>1. ASSUME profile # "mem0" PROVE Cardinality(alive) <= 1
    <3>1. CASE alive = {}
      BY <3>1, FS_EmptySet
    <3>2. CASE alive # {}
      <4>1. PICK s \in alive : TRUE
        BY <3>2
      <4>2. alive = {s}
        BY <2>1, <4>1 DEF IInv, Owners
      <4>3. Cardinality({s}) = 1
        BY FS_Singleton
      <4> QED
        BY <4>2, <4>3
    <3> QED
      BY <3>1, <3>2
  <2> QED
    BY <2>1 DEF IInv, Owners, SingleOwner
<1> QED
  BY <1>1, InductiveInvariant, PTL

\* A registered state is live and in exactly one caller's hands.
THEOREM OneHolder == Spec => []RegisteredIsHeld
<1>1. IInv => RegisteredIsHeld
  <2> SUFFICES ASSUME IInv, NEW s \in States, context[s] # Unbound
               PROVE  s \in alive /\ Cardinality({t \in Tasks : held[t] = s}) = 1
    BY DEF RegisteredIsHeld
  <2>1. PICK u \in Tasks : held[u] = s
    BY DEF IInv, Registered
  <2>2. s # NoState /\ s \in alive
    BY <2>1, BackendAssumption DEF IInv, Ownership
  <2>3. {t \in Tasks : held[t] = s} = {u}
    BY <2>1, <2>2 DEF IInv, Ownership
  <2> QED
    BY <2>2, <2>3, FS_Singleton
<1> QED
  BY <1>1, InductiveInvariant, PTL

\* Only an ingestion that raised leaves a live state to nobody, and never in MemOS.
THEOREM LossIsIngestion == Spec => []LostOnlyByIngest
<1>1. IInv => LostOnlyByIngest
  <2> SUFFICES ASSUME IInv, NEW s \in alive, ~Accounted(s)
               PROVE  profile # "memos" /\ rows[s] = Unbound /\ context[s] = Unbound
    BY DEF LostOnlyByIngest
  <2>1. profile # "memos" /\ rows[s] = Unbound
    BY DEF IInv, Ingested
  <2>2. context[s] = Unbound
    BY DEF IInv, Registered, Accounted, Shape
  <2> QED
    BY <2>1, <2>2
<1> QED
  BY <1>1, InductiveInvariant, PTL

-----------------------------------------------------------------------------
(* Deletion certificates.                                                   *)

Holds(t, k) ==
  /\ pc[t] = "apply" /\ frame[t].art.op = "delete"
  /\ k = [state |-> held[t], target |-> frame[t].target[1], before |-> frame[t].pre]

\* What a deletion will be compared with is still what the state holds.
Evident(t) ==
  pc[t] = "evidence" => frame[t].art.op = "delete" /\ frame[t].pre = rows[held[t]]

Fresh ==
  /\ profile # "graphiti" => tokens = {}
  /\ profile = "graphiti" => \A t \in Tasks : Evident(t)
  /\ \A k \in tokens : \E t \in Tasks : Holds(t, k)

\* A task that does not move sees nothing of the one that does.
LEMMA Untouched ==
  ASSUME IInv, NEW t \in Tasks, Effect(t), NEW u \in Tasks, u # t
  PROVE  /\ pc'[u] = pc[u] /\ held'[u] = held[u] /\ frame'[u] = frame[u]
         /\ pc[u] \in Holding => rows'[held[u]] = rows[held[u]]
<1>1. pc'[u] = pc[u] /\ held'[u] = held[u] /\ frame'[u] = frame[u]
  BY DEF Effect, Quiet, Takes, Registers, Gives, Forgets, Loses, Others
<1>2. ASSUME pc[u] \in Holding PROVE rows'[held[u]] = rows[held[u]]
  <2>1. held[u] \in States /\ held[u] # held[t] /\ held[u] # frame[t].handle
    BY <1>2, BackendAssumption DEF IInv, Ownership, Shape, Holding, Making, Nothing
  <2> QED
    BY <2>1 DEF Effect, Quiet, Takes, Registers, Gives, Forgets, Loses
<1> QED
  BY <1>1, <1>2

\* So only the certificates of the moving task are at stake.
LEMMA FreshStep ==
  ASSUME IInv, Fresh, NEW t \in Tasks, Effect(t), profile = "graphiti", Evident(t)',
         \A k \in tokens' : Holds(t, k)' \/ (k \in tokens /\ ~Holds(t, k))
  PROVE  Fresh'
<1>1. ASSUME NEW u \in Tasks PROVE Evident(u)'
  <2>1. CASE u = t
    BY <2>1
  <2>2. CASE u # t
    BY <2>2, Untouched DEF Evident, Fresh, Holding
  <2> QED
    BY <2>1, <2>2
<1>2. ASSUME NEW k \in tokens' PROVE \E u \in Tasks : Holds(u, k)'
  <2>1. CASE Holds(t, k)'
    BY <2>1
  <2>2. CASE k \in tokens /\ ~Holds(t, k)
    <3>1. PICK u \in Tasks : Holds(u, k)
      BY <2>2 DEF Fresh
    <3>2. u # t
      BY <2>2, <3>1
    <3> QED
      BY <3>1, <3>2, Untouched DEF Holds
  <2> QED
    BY <1>2, <2>1, <2>2
<1>3. profile' = profile
  BY DEF Effect, Quiet, Takes, Registers, Gives, Forgets, Loses, Others
<1> QED
  BY <1>1, <1>2, <1>3 DEF Fresh

\* Nothing is at stake when the task is at no deletion and issues nothing.
LEMMA FreshElsewhere ==
  ASSUME IInv, Fresh, NEW t \in Tasks, Effect(t), profile = "graphiti",
         pc[t] # "apply", pc'[t] # "evidence", tokens' \subseteq tokens
  PROVE  Fresh'
<1>1. Evident(t)'
  BY DEF Evident
<1>2. \A k \in tokens' : k \in tokens /\ ~Holds(t, k)
  BY DEF Holds
<1> QED
  BY <1>1, <1>2, FreshStep

LEMMA GraphitiFresh ==
  ASSUME IInv, Fresh, NEW t \in Tasks, profile = "graphiti", GraphitiStep(t), Effect(t)
  PROVE  Fresh'
<1>1. CASE GraphitiRoot(t) \/ GraphitiCreate(t) \/ GraphitiIngest(t) \/ GraphitiBind(t)
  <2>1. pc[t] # "apply" /\ pc'[t] # "evidence" /\ tokens' \subseteq tokens
    BY <1>1 DEF IInv, Shape, GraphitiRoot, RootRequest, GraphitiCreate, GraphitiIngest, GraphitiBind,
       At, Goto, Return, NoRoot, Abandon, Register, storeVars, protocolVars, adapterVars
  <2> QED
    BY <2>1, FreshElsewhere
<1>2. CASE GraphitiRetire(t)
  <2>1. pc[t] # "apply" /\ pc'[t] # "evidence" /\ tokens' \subseteq tokens
    BY <1>2 DEF IInv, Shape, GraphitiRetire, TearDown, Forget, At, Return, Goto
  <2> QED
    BY <2>1, FreshElsewhere
<1>3. CASE GraphitiVerify(t) \/ GraphitiCertify(t) \/ GraphitiRetrieve(t)
  <2>1. pc[t] # "apply" /\ pc'[t] # "evidence" /\ tokens' \subseteq tokens
    BY <1>3 DEF IInv, Shape, GraphitiVerify, GraphitiCertify, GraphitiRetrieve, Read, Accept, Fail, At,
       Return, Goto, storeVars, protocolVars, adapterVars
  <2> QED
    BY <2>1, FreshElsewhere
<1>4. CASE GraphitiReplay(t)
  <2>1. pc[t] # "apply" /\ pc[t] = "own" /\ tokens' = tokens /\ rows' = rows
    BY <1>4 DEF GraphitiReplay, At, storeVars, adapterVars
  <2>2. CASE Fail(t)
    <3>1. pc'[t] # "evidence"
      BY <2>2 DEF IInv, Shape, Fail, Return, Goto
    <3> QED
      BY <2>1, <3>1, FreshElsewhere
  <2>3. CASE ~Fail(t)
    <3>1. PICK art \in Artifacts, e \in DOMAIN rows[held[t]] :
            Aim(t, held[t], art, e, rows[held[t]], IF art.op = "delete" THEN "evidence" ELSE "apply")
      BY <1>4, <2>3 DEF GraphitiReplay, GraphitiInventory
    <3>2. /\ pc'[t] = IF art.op = "delete" THEN "evidence" ELSE "apply"
          /\ held' = held
      BY <3>1 DEF Aim, Goto, IInv, Shape
    <3>3. frame' = [frame EXCEPT ![t] = [frame[t] EXCEPT !.art = art, !.pre = rows[held[t]],
                                                        !.target = <<e>>]]
      BY <3>1 DEF Aim
    <3>4. frame'[t].art = art /\ frame'[t].pre = rows[held[t]]
      BY <3>3 DEF IInv, Shape
    <3>5. Evident(t)'
      BY <2>1, <3>2, <3>4 DEF Evident
    <3>6. \A k \in tokens' : k \in tokens /\ ~Holds(t, k)
      BY <2>1 DEF Holds
    <3> QED
      BY <3>5, <3>6, FreshStep
  <2> QED
    BY <2>2, <2>3
<1>5. CASE GraphitiEvidence(t)
  <2>1. pc[t] = "evidence" /\ rows' = rows /\ pc'[t] # "evidence"
    BY <1>5 DEF GraphitiEvidence, At, Fail, Return, Goto, IInv, Shape, storeVars
  <2>2. CASE UNCHANGED tokens
    BY <2>1, <2>2, FreshElsewhere
  <2>3. CASE ~UNCHANGED tokens
    <3> DEFINE new == [state |-> held[t], target |-> frame[t].target[1], before |-> rows[held[t]]]
    <3>1. /\ tokens' = tokens \cup {new}
          /\ pc'[t] = "apply" /\ UNCHANGED <<held, frame>>
      BY <1>5, <2>3 DEF GraphitiEvidence, Goto, IInv, Shape
    <3>2. frame[t].art.op = "delete" /\ frame[t].pre = rows[held[t]]
      BY <2>1 DEF Fresh, Evident
    <3>3. \A k : k = new => Holds(t, k)'
      BY <3>1, <3>2, <2>1 DEF Holds
    <3>4. \A k \in tokens : ~Holds(t, k)
      BY <2>1 DEF Holds
    <3>5. Evident(t)'
      BY <3>1 DEF Evident
    <3> HIDE DEF new
    <3> QED
      BY <3>1, <3>3, <3>4, <3>5, FreshStep
  <2> QED
    BY <2>2, <2>3
<1>6. CASE GraphitiDelete(t)
  <2> DEFINE token == [state |-> held[t], target |-> frame[t].target[1], before |-> frame[t].pre]
  <2>1. tokens' = tokens \ {token} /\ pc'[t] # "evidence"
    BY <1>6 DEF GraphitiDelete, Consumed, Fail, Return, Goto, IInv, Shape
  <2>2. Evident(t)'
    BY <2>1 DEF Evident
  <2>3. \A k \in tokens' : k \in tokens /\ ~Holds(t, k)
    BY <2>1 DEF Holds
  <2> HIDE DEF token
  <2> QED
    BY <2>2, <2>3, FreshStep
<1>7. CASE GraphitiUpdate(t)
  <2>1. frame[t].art.op # "delete" /\ tokens' = tokens /\ pc'[t] # "evidence"
    BY <1>7 DEF GraphitiUpdate, Fail, Return, Goto, IInv, Shape, adapterVars
  <2>2. Evident(t)'
    BY <2>1 DEF Evident
  <2>3. \A k \in tokens' : k \in tokens /\ ~Holds(t, k)
    BY <2>1 DEF Holds
  <2> QED
    BY <2>2, <2>3, FreshStep
<1> QED
  BY <1>1, <1>2, <1>3, <1>4, <1>5, <1>6, <1>7 DEF GraphitiStep

LEMMA NextFresh == IInv /\ Fresh /\ [Next]_vars => Fresh'
<1> SUFFICES ASSUME IInv, Fresh, [Next]_vars PROVE Fresh'
  OBVIOUS
<1>1. ASSUME NEW t \in Tasks, Step(t) PROVE Fresh'
  <2>1. profile' = profile
    BY <1>1 DEF Step
  <2>2. Effect(t)
    BY <1>1, <2>1, SharedEffects, Mem0Effects, AMemEffects, GraphitiEffects, MemosEffects
    DEF Step, Handler, Effect
  <2>3. CASE profile # "graphiti"
    <3>1. tokens' = {}
      BY <2>2, <2>3 DEF Fresh, Effect, Quiet, Takes, Registers, Gives, Forgets, Loses, Others
    <3> QED
      BY <2>1, <2>3, <3>1 DEF Fresh
  <2>4. CASE profile = "graphiti" /\ Handler(t)
    BY <2>2, <2>4, GraphitiFresh DEF Handler
  <2>5. CASE profile = "graphiti" /\ Discard(t)
    <3>1. pc[t] # "apply" /\ pc'[t] # "evidence" /\ tokens' \subseteq tokens
      BY <2>5 DEF Discard, Resting, Goto, IInv, Shape, adapterVars
    <3> QED
      BY <2>2, <2>5, <3>1, FreshElsewhere
  <2> QED
    BY <1>1, <2>3, <2>4, <2>5 DEF Step
<1>2. CASE UNCHANGED vars
  BY <1>2 DEF vars, callVars, storeVars, adapterVars, Fresh, Evident, Holds
<1> QED
  BY <1>1, <1>2 DEF Next

\* A deletion certificate never outlives the handler that asked for it, whatever other
\* materialization runs between its steps.
THEOREM NoStaleToken == Spec => []TokensAreFresh
<1>1. Init => Fresh
  BY DEF Init, InitWith, Fresh, Evident
<1>2. Fresh => TokensAreFresh
  BY DEF Fresh, Holds, TokensAreFresh
<1> QED
  BY <1>1, <1>2, NextFresh, InductiveInvariant, PTL DEF Spec

-----------------------------------------------------------------------------
(* Content: stores, and what a diff of two of them says.                     *)

LEMMA StoreType ==
  ASSUME NEW f
  PROVE  f \in Stores <=> DOMAIN f \subseteq Entries /\ f \in [DOMAIN f -> Rows]
BY DEF Stores

LEMMA WithStore ==
  ASSUME NEW f \in Stores, NEW e \in Entries, NEW r \in Rows
  PROVE  With(f, e, r) \in Stores
<1>1. DOMAIN With(f, e, r) \subseteq Entries
  BY StoreType DEF With
<1>2. With(f, e, r) \in [DOMAIN With(f, e, r) -> Rows]
  BY StoreType DEF With
<1> QED
  BY <1>1, <1>2, StoreType

LEMMA WithoutStore ==
  ASSUME NEW f \in Stores, NEW e
  PROVE  Without(f, e) \in Stores
<1>1. DOMAIN Without(f, e) \subseteq Entries
  BY StoreType DEF Without
<1>2. Without(f, e) \in [DOMAIN Without(f, e) -> Rows]
  BY StoreType DEF Without
<1> QED
  BY <1>1, <1>2, StoreType

LEMMA NearStore ==
  ASSUME NEW f \in Stores, NEW g \in Near(f)
  PROVE  g \in Stores
<1>1. g = f \/ (\E e \in DOMAIN f : g = Without(f, e)) \/ \E e \in Entries : g = With(f, e, Stray)
  BY DEF Near
<1>2. Stray \in Rows
  BY BackendAssumption
<1> QED
  BY <1>1, <1>2, WithStore, WithoutStore

LEMMA FreshStore == \A f \in FreshStores : f \in Stores
BY RowAssumption, StoreType

LEMMA UnboundStore == Unbound \in Stores
<1>1. DOMAIN Unbound = {}
  BY DEF Unbound
<1>2. Unbound \in [DOMAIN Unbound -> Rows]
  BY DEF Unbound
<1> QED
  BY <1>1, <1>2, StoreType

Labels == Resting \cup {"create", "ingest", "bind", "teardown", "apply", "verify", "evidence"}
Certain == {"own", "certified", "observed"}
OnState == {"evidence", "apply", "verify"}

Typed ==
  /\ profile \in Profiles /\ owner \in States \cup {NoState}
  /\ pc \in [Tasks -> Labels] /\ held \in [Tasks -> States \cup {NoState}]
  /\ steps \in [Tasks -> 0..MaxReplays]
  /\ DOMAIN lineage = States /\ DOMAIN entity = States
  /\ certified = [s \in States |-> certified[s]]
  /\ \A s \in States : rows[s] \in Stores /\ context[s] \in Inventories \cup {Unbound}
  /\ \A s \in States : \A x \in DOMAIN lineage[s] : lineage[s][x] \in E0
  /\ \A s \in States \ alive : certified[s] = Unbound

\* What a handler has in its frame before there is a certificate.
Framed(t) ==
  /\ frame[t].art \in Artifacts \cup {NoArtifact}
  /\ pc[t] \in {"create", "ingest", "bind"} => frame[t].inv \in Inventories
  /\ pc[t] \in {"ingest", "bind"} => certified[frame[t].handle] = Unbound

\* A state at rest is what its certificates say.
Bound(t) ==
  pc[t] \in Certain =>
    /\ EveryEntryBound(held[t])
    /\ Logical(rows[held[t]], lineage[held[t]]) = certified[held[t]]
    /\ profile = "mem0" => Mem0AuxiliaryOK(held[t])
    /\ profile = "a-mem" => AMemInventoryOK(held[t])
    /\ profile = "graphiti" => DOMAIN lineage[held[t]] = DOMAIN rows[held[t]]

\* In a transition, the inventory taken before it is.
Aimed(t) ==
  pc[t] \in OnState =>
    /\ frame[t].art \in Artifacts /\ frame[t].pre \in Stores /\ steps[t] < MaxReplays
    /\ DOMAIN frame[t].pre \subseteq DOMAIN lineage[held[t]]
    /\ profile = "graphiti" => DOMAIN lineage[held[t]] = DOMAIN frame[t].pre
    /\ Logical(frame[t].pre, lineage[held[t]]) = certified[held[t]]
    /\ frame[t].target[1] \in DOMAIN frame[t].pre
    /\ \A x \in DOMAIN frame[t].pre :
         lineage[held[t]][x] = frame[t].art.target <=> x = frame[t].target[1]

Content(t) == Framed(t) /\ Bound(t) /\ Aimed(t)

CInv == IInv /\ Typed /\ \A t \in Tasks : Content(t)

-----------------------------------------------------------------------------
(* A step of one task, as the others and the types see it.                   *)

Apart(t) ==
  /\ pc' = [pc EXCEPT ![t] = pc'[t]] /\ pc'[t] \in Labels
  /\ held' = [held EXCEPT ![t] = held'[t]]
  /\ steps' = [steps EXCEPT ![t] = steps'[t]] /\ steps'[t] \in 0..MaxReplays
  /\ owner' \in States \cup {NoState}
  /\ DOMAIN lineage' = States /\ DOMAIN entity' = States
  /\ certified' = [s \in States |-> certified'[s]]
  /\ \A s \in States : \/ s = held[t] \/ s = frame[t].handle
                       \/ /\ rows'[s] = rows[s] /\ lineage'[s] = lineage[s]
                          /\ entity'[s] = entity[s] /\ certified'[s] = certified[s]
  /\ \A s \in alive : s = held[t] \/ s = frame[t].handle \/ profile # "a-mem" \/ UNCHANGED collection
  /\ \A s \in States : /\ rows'[s] \in Stores /\ context'[s] \in Inventories \cup {Unbound}
                       /\ \A x \in DOMAIN lineage'[s] : lineage'[s][x] \in E0
  /\ \A s \in alive \ alive' : certified'[s] = Unbound

LEMMA ApartTyped ==
  ASSUME CInv, NEW t \in Tasks, Effect(t), Apart(t), IInv'
  PROVE  Typed'
<1>1. profile' = profile /\ held'[t] \in States \cup {NoState}
  BY DEF Effect, Quiet, Takes, Registers, Gives, Forgets, Loses, Others, IInv, Ownership, Shape
<1>2. /\ pc' \in [Tasks -> Labels] /\ held' \in [Tasks -> States \cup {NoState}]
      /\ steps' \in [Tasks -> 0..MaxReplays]
  BY <1>1 DEF Apart, CInv, Typed
<1>3. \A s \in States \ alive' : certified'[s] = Unbound
  <2> SUFFICES ASSUME NEW s \in States \ alive' PROVE certified'[s] = Unbound
    OBVIOUS
  <2>1. CASE s \in alive
    BY <2>1 DEF Apart
  <2>2. CASE s \notin alive
    <3>1. CASE s # held[t] /\ s # frame[t].handle
      BY <2>2, <3>1 DEF Apart, CInv, Typed
    <3>2. CASE s = held[t] \/ s = frame[t].handle
      BY <2>2, <3>2, BackendAssumption DEF CInv, IInv, Ownership
    <3> QED
      BY <3>1, <3>2
  <2> QED
    BY <2>1, <2>2
<1> QED
  BY <1>1, <1>2, <1>3 DEF Apart, CInv, Typed

LEMMA ApartOthers ==
  ASSUME CInv, NEW t \in Tasks, Effect(t), Apart(t), NEW u \in Tasks, u # t
  PROVE  Content(u)'
<1>1. /\ pc'[u] = pc[u] /\ held'[u] = held[u] /\ frame'[u] = frame[u] /\ steps'[u] = steps[u]
      /\ profile' = profile
  <2>1. pc'[u] = pc[u] /\ held'[u] = held[u] /\ frame'[u] = frame[u]
    BY Untouched DEF CInv
  <2>2. steps'[u] = steps[u]
    BY DEF Apart, CInv, Typed
  <2>3. profile' = profile
    BY DEF Effect, Quiet, Takes, Registers, Gives, Forgets, Loses, Others
  <2> QED
    BY <2>1, <2>2, <2>3
<1>2. ASSUME pc[u] \in Holding
      PROVE  /\ rows'[held[u]] = rows[held[u]] /\ lineage'[held[u]] = lineage[held[u]]
             /\ entity'[held[u]] = entity[held[u]] /\ certified'[held[u]] = certified[held[u]]
             /\ profile = "a-mem" => collection' = collection
  <2>1. held[u] \in alive /\ held[u] \in States /\ held[u] # held[t] /\ held[u] # frame[t].handle
    BY <1>2, BackendAssumption DEF CInv, IInv, Ownership, Shape, Holding, Making, Nothing
  <2> QED
    BY <2>1 DEF Apart
<1>3. ASSUME pc[u] \in {"ingest", "bind"} PROVE certified'[frame[u].handle] = certified[frame[u].handle]
  <2>1. frame[u].handle \in States /\ frame[u].handle # held[t] /\ frame[u].handle # frame[t].handle
    BY <1>3, BackendAssumption DEF CInv, IInv, Ownership, Shape, Holding, Making, Nothing
  <2> QED
    BY <2>1 DEF Apart
<1>4. Content(u)
  BY DEF CInv
<1>5. Framed(u)'
  BY <1>1, <1>3, <1>4 DEF Content, Framed
<1>6. Bound(u)'
  <2> SUFFICES ASSUME pc[u] \in Certain PROVE Bound(u)'
    BY <1>1 DEF Bound
  <2>1. PICK s : s = held[u]
    OBVIOUS
  <2>2. /\ rows'[s] = rows[s] /\ lineage'[s] = lineage[s] /\ entity'[s] = entity[s]
        /\ certified'[s] = certified[s] /\ held'[u] = s
        /\ profile = "a-mem" => collection' = collection
    BY <1>1, <1>2, <2>1 DEF Certain, Holding
  <2>3. /\ EveryEntryBound(s) /\ Logical(rows[s], lineage[s]) = certified[s]
        /\ profile = "mem0" => Mem0AuxiliaryOK(s)
        /\ profile = "a-mem" => AMemInventoryOK(s)
        /\ profile = "graphiti" => DOMAIN lineage[s] = DOMAIN rows[s]
    BY <1>4, <2>1 DEF Content, Bound
  <2>4. EveryEntryBound(s)' /\ (profile = "mem0" => Mem0AuxiliaryOK(s)')
    BY <2>2, <2>3 DEF EveryEntryBound, Mem0AuxiliaryOK
  <2>5. profile = "a-mem" => AMemInventoryOK(s)'
    BY <2>2, <2>3 DEF AMemInventoryOK
  <2> QED
    BY <1>1, <2>2, <2>3, <2>4, <2>5 DEF Bound, EveryEntryBound, Mem0AuxiliaryOK, AMemInventoryOK
<1>7. Aimed(u)'
  <2>1. pc[u] \in OnState => pc[u] \in Holding
    BY DEF OnState, Holding
  <2> QED
    BY <1>1, <1>2, <1>4, <2>1 DEF Content, Aimed
<1> QED
  BY <1>5, <1>6, <1>7 DEF Content

-----------------------------------------------------------------------------
(* What a step is to the content of its own state.                           *)

Ends(t) ==
  /\ pc'[t] \in {"idle", "create", "failed", "teardown"}
  /\ pc'[t] = "create" => frame'[t].inv \in Inventories
  /\ frame'[t].art \in Artifacts \cup {NoArtifact}
  /\ UNCHANGED certified

Clears(t) ==
  /\ frame[t].handle \in States
  /\ pc'[t] = "idle" /\ frame'[t].art = NoArtifact
  /\ certified' = [certified EXCEPT ![frame[t].handle] = Unbound]

Makes(t) ==
  /\ pc[t] = "create" /\ pc'[t] = "ingest"
  /\ \E s \in States \ alive : frame'[t] = [frame[t] EXCEPT !.handle = s]
  /\ UNCHANGED certified

Fills(t) ==
  /\ pc[t] = "ingest" /\ pc'[t] = "bind"
  /\ UNCHANGED <<frame, certified>>

Opens(t) ==
  LET s == frame[t].handle
      inv == frame[t].inv
  IN
  /\ pc[t] = "bind"
  /\ SameKeys(rows[s], inv) /\ ~Repeats(inv)
  /\ profile = "mem0" => entity[s] = << >>
  /\ profile = "a-mem" => AMemInventoryOK(s)
  /\ Register(t, s, inv, RootLineage(rows[s], inv))
  /\ UNCHANGED storeVars

Aims(t) ==
  /\ pc[t] = "own" /\ steps[t] < MaxReplays
  /\ \E art \in Artifacts, e \in DOMAIN rows[held[t]], label \in {"evidence", "apply"} :
       Aim(t, held[t], art, e, rows[held[t]], label)
  /\ UNCHANGED <<storeVars, protocolVars>>

Proceeds(t) ==
  /\ pc[t] \in {"evidence", "apply"} /\ pc'[t] \in {"apply", "verify"}
  /\ UNCHANGED <<held, steps, frame, lineage, certified>>

\* The diff of a transition: the target alone changed, keeping its provenance, or is gone.
Differs(pre, post, old, new, id, e) ==
  /\ \A x \in DOMAIN pre \ {e} : x \in DOMAIN post /\ post[x] = pre[x] /\ new[x] = old[x]
  /\ \A x \in DOMAIN post : new[x] = id \/ x \in DOMAIN pre \ {e}
  /\ \/ \A x \in DOMAIN post : new[x] # id
     \/ \E x \in DOMAIN post : new[x] = id /\ pre[e].src \subseteq post[x].src

Accepts(t) ==
  LET s == held[t]
      f == frame[t]
  IN
  /\ pc[t] = "verify"
  /\ \E line :
       /\ Accept(t, s, line)
       /\ Differs(f.pre, rows[s], lineage[s], line, f.art.target, f.target[1])
       /\ DOMAIN rows[s] \subseteq DOMAIN line
       /\ profile = "graphiti" => DOMAIN line = DOMAIN rows[s]
  /\ profile = "mem0" => Mem0AuxiliaryOK(s)
  /\ profile = "a-mem" => AMemInventoryOK(s)
  /\ UNCHANGED storeVars

Reads(t) ==
  /\ pc[t] \in {"own", "certified"} /\ pc'[t] \in {"certified", "observed"}
  /\ frame'[t].art = NoArtifact
  /\ UNCHANGED <<held, steps, storeVars, protocolVars>>

Kind(t) ==
  \/ Ends(t) \/ Clears(t) \/ Makes(t) \/ Fills(t) \/ Opens(t)
  \/ Aims(t) \/ Proceeds(t) \/ Accepts(t) \/ Reads(t)

LEMMA KindProfile ==
  ASSUME NEW t \in Tasks, Effect(t) PROVE profile' = profile
BY DEF Effect, Quiet, Takes, Registers, Gives, Forgets, Loses, Others

LEMMA KindContent ==
  ASSUME CInv, NEW t \in Tasks, Effect(t), Apart(t), Kind(t)
  PROVE  Content(t)'
<1>0. profile' = profile
  BY KindProfile
<1>1. CASE Ends(t) \/ Clears(t)
  BY <1>1 DEF Ends, Clears, Content, Framed, Bound, Aimed, Certain, OnState
<1>2. CASE Makes(t)
  <2>1. PICK s \in States \ alive : frame'[t] = [frame[t] EXCEPT !.handle = s]
    BY <1>2 DEF Makes
  <2>2. /\ frame'[t].handle = s /\ frame'[t].inv = frame[t].inv /\ frame'[t].art = frame[t].art
    BY <2>1 DEF CInv, IInv, Shape
  <2> QED
    BY <1>2, <2>2 DEF Makes, CInv, Typed, Content, Framed, Bound, Aimed, Certain, OnState
<1>3. CASE Fills(t)
  BY <1>3 DEF Fills, CInv, Content, Framed, Bound, Aimed, Certain, OnState
<1>4. CASE Opens(t)
  <2>1. PICK s \in States : s = frame[t].handle
    BY <1>4 DEF Opens, CInv, IInv, Ownership, Shape, Nothing, Making, Holding
  <2> DEFINE line == RootLineage(rows[s], frame[t].inv)
  <2>2. /\ pc'[t] = "own" /\ held'[t] = s /\ lineage'[s] = line
        /\ certified'[s] = Logical(rows[s], line) /\ rows' = rows /\ entity' = entity
        /\ collection' = collection /\ frame'[t] = NoFrame
    BY <1>4, <2>1 DEF Opens, Register, Return, Goto, storeVars, CInv, IInv, Shape, Typed
  <2>3. DOMAIN line = DOMAIN rows[s]
    BY DEF RootLineage
  <2> HIDE DEF line
  <2>4. Framed(t)' /\ Aimed(t)'
    BY <2>2 DEF Framed, Aimed, NoFrame, OnState
  <2>5. EveryEntryBound(s)' /\ (Logical(rows[s], lineage[s]) = certified[s])'
    BY <2>2, <2>3 DEF EveryEntryBound
  <2>6. profile = "mem0" => Mem0AuxiliaryOK(s)'
    BY <1>4, <2>1, <2>2, <2>5 DEF Opens, Mem0AuxiliaryOK
  <2>7. profile = "a-mem" => AMemInventoryOK(s)'
    BY <1>4, <2>1, <2>2 DEF Opens, AMemInventoryOK
  <2>8. Bound(t)'
    BY <1>0, <2>2, <2>3, <2>5, <2>6, <2>7 DEF Bound, EveryEntryBound, Mem0AuxiliaryOK, AMemInventoryOK
  <2> QED
    BY <2>4, <2>8 DEF Content
<1>5. CASE Aims(t)
  <2>1. PICK art \in Artifacts, e \in DOMAIN rows[held[t]], label \in {"evidence", "apply"} :
          Aim(t, held[t], art, e, rows[held[t]], label)
    BY <1>5 DEF Aims
  <2>2. pc'[t] = label /\ held' = held /\ steps' = steps /\ lineage' = lineage /\ certified' = certified
    BY <1>5, <2>1 DEF Aims, Aim, Goto, CInv, IInv, Shape, protocolVars
  <2>3. frame' = [frame EXCEPT ![t] = [frame[t] EXCEPT !.art = art, !.pre = rows[held[t]],
                                                      !.target = <<e>>]]
    BY <2>1 DEF Aim
  <2>4. frame'[t].art = art /\ frame'[t].pre = rows[held[t]] /\ frame'[t].target = <<e>>
    BY <2>3 DEF CInv, IInv, Shape
  <2>5. TargetEntries(held[t], art.target) = {e}
    BY <2>1 DEF Aim
  <2>6. held[t] \in States /\ rows[held[t]] \in Stores
    BY <1>5 DEF Aims, CInv, Typed, IInv, Ownership, Shape, Nothing, Making, Holding
  <2>7. \A x \in DOMAIN rows[held[t]] : lineage[held[t]][x] = art.target <=> x = e
    BY <2>5 DEF TargetEntries
  <2>8. Bound(t) /\ pc[t] \in Certain
    BY <1>5 DEF Aims, CInv, Content, Certain
  <2>9. Framed(t)' /\ Bound(t)'
    BY <2>2, <2>4 DEF Framed, Bound, Certain
  <2>10. Aimed(t)'
    BY <1>0, <1>5, <2>2, <2>4, <2>6, <2>7, <2>8 DEF Aims, Aimed, Bound, EveryEntryBound
  <2> QED
    BY <2>9, <2>10 DEF Content
<1>6. CASE Proceeds(t)
  <2>1. Aimed(t) /\ Framed(t) /\ pc[t] \in OnState
    BY <1>6 DEF Proceeds, CInv, Content, OnState
  <2>2. pc'[t] \in OnState /\ Framed(t)' /\ Bound(t)'
    BY <1>6, <2>1 DEF Proceeds, Framed, Bound, OnState, Certain
  <2>3. Aimed(t)'
    BY <1>0, <1>6, <2>1 DEF Proceeds, Aimed
  <2> QED
    BY <2>2, <2>3 DEF Content
<1>7. CASE Accepts(t)
  <2> DEFINE s == held[t]
  <2>1. PICK line : /\ Accept(t, s, line) /\ DOMAIN rows[s] \subseteq DOMAIN line
                    /\ profile = "graphiti" => DOMAIN line = DOMAIN rows[s]
    BY <1>7 DEF Accepts
  <2>2. s \in States
    BY <1>7 DEF Accepts, CInv, IInv, Ownership, Shape, Nothing, Making, Holding
  <2>3. /\ pc'[t] = "own" /\ held' = held /\ lineage'[s] = line
        /\ certified'[s] = Logical(rows[s], line) /\ rows' = rows /\ entity' = entity
        /\ collection' = collection /\ frame'[t] = NoFrame
    BY <1>7, <2>1, <2>2 DEF Accepts, Accept, Return, Goto, storeVars, CInv, IInv, Shape, Typed
  <2>4. Framed(t)' /\ Aimed(t)'
    BY <2>3 DEF Framed, Aimed, NoFrame, OnState
  <2>5. profile = "mem0" => Mem0AuxiliaryOK(s)'
    BY <1>7, <2>1, <2>3 DEF Accepts, Mem0AuxiliaryOK, EveryEntryBound
  <2>6. Bound(t)'
    BY <1>0, <1>7, <2>1, <2>3, <2>5
    DEF Accepts, Bound, EveryEntryBound, Mem0AuxiliaryOK, AMemInventoryOK
  <2> QED
    BY <2>4, <2>6 DEF Content
<1>8. CASE Reads(t)
  <2>1. pc[t] \in Certain /\ pc'[t] \in Certain /\ Bound(t)
    BY <1>8 DEF Reads, CInv, Content, Certain
  <2>2. Framed(t)' /\ Aimed(t)'
    BY <1>8 DEF Reads, Framed, Aimed, OnState
  <2>3. Bound(t)'
    BY <1>0, <1>8, <2>1 DEF Reads, storeVars, protocolVars, Bound, EveryEntryBound, Mem0AuxiliaryOK,
       AMemInventoryOK
  <2> QED
    BY <2>2, <2>3 DEF Content
<1> QED
  BY <1>1, <1>2, <1>3, <1>4, <1>5, <1>6, <1>7, <1>8 DEF Kind

\* The root re-binding gives every ID exactly the row its inventory has for it, and no two
\* entries the same ID.
LEMMA RootIsInventory ==
  ASSUME NEW f \in Stores, NEW inv \in Inventories, SameKeys(f, inv), ~Repeats(inv)
  PROVE  /\ \A e \in DOMAIN f : RootLineage(f, inv)[e] \in E0
         /\ \A id \in E0 : Logical(f, RootLineage(f, inv))[id] = {inv[id]}
         /\ \A x, y \in DOMAIN f : RootLineage(f, inv)[x] = RootLineage(f, inv)[y] => x = y
<1> DEFINE A(r) == {x \in DOMAIN f : f[x] = r}
           B(r) == {y \in DOMAIN inv : inv[y] = r}
           line == RootLineage(f, inv)
<1>1. /\ DOMAIN f \subseteq Entries /\ \A x \in DOMAIN f : f[x] \in Rows
      /\ DOMAIN inv = E0 /\ \A y \in E0 : inv[y] \in Rows
  BY StoreType, BackendAssumption
<1>2. \A r \in Rows : IsFiniteSet(A(r)) /\ IsFiniteSet(B(r)) /\ Cardinality(A(r)) = Cardinality(B(r))
  <2> SUFFICES ASSUME NEW r \in Rows
               PROVE  IsFiniteSet(A(r)) /\ IsFiniteSet(B(r)) /\ Cardinality(A(r)) = Cardinality(B(r))
    OBVIOUS
  <2>1. A(r) \subseteq Entries /\ B(r) \subseteq E0
    BY <1>1
  <2>2. IsFiniteSet(A(r)) /\ IsFiniteSet(B(r))
    BY <2>1, BackendAssumption, FS_Subset
  <2>3. Cardinality(A(r)) = Cardinality(B(r))
    BY DEF SameKeys
  <2> QED
    BY <2>2, <2>3
<1>3. \A i, j \in E0 : inv[i] = inv[j] => i = j
  BY <1>1 DEF Repeats
<1>4. ASSUME NEW id \in E0 PROVE \E e \in DOMAIN f : A(inv[id]) = {e}
  <2>1. B(inv[id]) = {id}
    BY <1>1, <1>3
  <2>2. Cardinality(A(inv[id])) = 1 /\ IsFiniteSet(A(inv[id]))
    BY <1>1, <1>2, <2>1, FS_Singleton
  <2>3. PICK e : A(inv[id]) = {e}
    BY <2>2, FS_Singleton
  <2> QED
    BY <2>3
<1>5. ASSUME NEW e \in DOMAIN f PROVE line[e] \in E0 /\ inv[line[e]] = f[e]
  <2>1. f[e] \in Rows /\ A(f[e]) # {}
    BY <1>1
  <2>2. IsFiniteSet(A(f[e])) /\ IsFiniteSet(B(f[e])) /\ Cardinality(A(f[e])) = Cardinality(B(f[e]))
    BY <1>2, <2>1
  <2>3. Cardinality(A(f[e])) # 0
    BY <2>1, <2>2, FS_EmptySet
  <2>4. B(f[e]) # {}
    BY <2>2, <2>3, FS_EmptySet
  <2>5. \E id \in E0 : inv[id] = f[e]
    BY <1>1, <2>4
  <2>6. line[e] = CHOOSE id \in E0 : inv[id] = f[e]
    BY DEF RootLineage
  <2> QED
    BY <2>5, <2>6
<1>6. ASSUME NEW id \in E0 PROVE Logical(f, line)[id] = {inv[id]}
  <2>1. PICK e \in DOMAIN f : A(inv[id]) = {e}
    BY <1>4
  <2>2. f[e] = inv[id]
    BY <2>1
  <2>3. {x \in DOMAIN f : line[x] = id} = {e}
    <3>1. line[e] = id
      BY <1>3, <1>5, <2>2
    <3>2. \A x \in DOMAIN f : line[x] = id => x \in A(inv[id])
      BY <1>5
    <3> QED
      BY <2>1, <3>1, <3>2
  <2>4. Logical(f, line)[id] = {f[x] : x \in {y \in DOMAIN f : line[y] = id}}
    BY DEF Logical
  <2> QED
    BY <2>2, <2>3, <2>4
<1>7. \A x, y \in DOMAIN f : line[x] = line[y] => x = y
  <2> SUFFICES ASSUME NEW x \in DOMAIN f, NEW y \in DOMAIN f, line[x] = line[y] PROVE x = y
    OBVIOUS
  <2>1. PICK e : A(inv[line[x]]) = {e}
    BY <1>4, <1>5
  <2>2. x \in A(inv[line[x]]) /\ y \in A(inv[line[x]])
    BY <1>5
  <2> QED
    BY <2>1, <2>2
<1> QED
  BY <1>5, <1>6, <1>7

\* ID id of state s goes from the one row old to the rows new.
Becomes(s, id, old, new) ==
  /\ certified[s][id] = {old}
  /\ certified' = [certified EXCEPT ![s] = [certified[s] EXCEPT ![id] = new]]
  /\ new = {} \/ \E r \in new : old.src \subseteq r.src

\* An accepted transition finds its target ID with one row, and leaves it deleted or with
\* that row's provenance.
LEMMA AcceptsTarget ==
  ASSUME CInv, NEW t \in Tasks, Accepts(t), NEW s, s = held[t], NEW id, id = frame[t].art.target
  PROVE  /\ s \in States /\ id \in E0 /\ DOMAIN certified[s] = E0
         /\ \E old \in Rows, new \in SUBSET Rows : Becomes(s, id, old, new)
<1> DEFINE pre == frame[t].pre
           e == frame[t].target[1]
<1>1. s \in States
  BY DEF Accepts, CInv, IInv, Ownership, Shape, Nothing, Making, Holding
<1>2. PICK line : Accept(t, s, line) /\ Differs(pre, rows[s], lineage[s], line, id, e)
  BY DEF Accepts
<1> DEFINE post == rows[s]
           new == Logical(post, line)
           old == Logical(pre, lineage[s])
<1>3. certified' = [certified EXCEPT ![s] = new]
  BY <1>2 DEF Accept
<1>4. /\ certified[s] = old /\ e \in DOMAIN pre /\ pre \in Stores
      /\ DOMAIN pre \subseteq DOMAIN lineage[s]
      /\ \A x \in DOMAIN pre : lineage[s][x] = id <=> x = e
  BY <1>1 DEF Accepts, CInv, Content, Aimed, OnState
<1>5. id \in E0
  BY <1>1, <1>4 DEF CInv, Typed
<1>6. /\ \A j \in E0 \ {id} : new[j] = old[j]
      /\ old[id] = {pre[e]}
      /\ new[id] = {post[x] : x \in {y \in DOMAIN post : line[y] = id}}
  <2>1. /\ \A x \in DOMAIN pre \ {e} :
              x \in DOMAIN post /\ post[x] = pre[x] /\ line[x] = lineage[s][x]
        /\ \A x \in DOMAIN post : line[x] = id \/ x \in DOMAIN pre \ {e}
    BY <1>2 DEF Differs
  <2>2. /\ \A j \in E0 \ {id} : Logical(post, line)[j] = Logical(pre, lineage[s])[j]
        /\ Logical(pre, lineage[s])[id] = {pre[e]}
    <3>1. \A j \in E0 \ {id} :
            {y \in DOMAIN post : line[y] = j} = {y \in DOMAIN pre : lineage[s][y] = j}
      BY <1>4, <2>1
    <3>2. \A j \in E0 \ {id} : \A x \in {y \in DOMAIN pre : lineage[s][y] = j} : post[x] = pre[x]
      BY <1>4, <2>1
    <3>3. \A j \in E0 \ {id} : Logical(post, line)[j] = Logical(pre, lineage[s])[j]
      BY <3>1, <3>2 DEF Logical
    <3>4. {y \in DOMAIN pre : lineage[s][y] = id} = {e}
      BY <1>4
    <3>5. Logical(pre, lineage[s])[id] = {pre[e]}
      BY <1>5, <3>4 DEF Logical
    <3> QED
      BY <3>3, <3>5
  <2>3. Logical(post, line)[id] = {post[x] : x \in {y \in DOMAIN post : line[y] = id}}
    BY <1>5 DEF Logical
  <2> QED
    BY <2>2, <2>3
<1>7. DOMAIN old = E0 /\ DOMAIN new = E0
  BY DEF Logical
<1>8. new = [old EXCEPT ![id] = new[id]]
  <2>1. new = [j \in E0 |-> new[j]] /\ old = [j \in E0 |-> old[j]]
    BY DEF Logical
  <2> HIDE DEF new, old
  <2> QED
    BY <2>1, <1>5, <1>6, <1>7
<1>9. pre[e] \in Rows /\ new[id] \in SUBSET Rows
  <2>1. post \in Stores
    BY <1>1 DEF CInv, Typed
  <2> QED
    BY <1>4, <1>6, <2>1, StoreType
<1>10. certified' = [certified EXCEPT ![s] = [certified[s] EXCEPT ![id] = new[id]]]
  BY <1>3, <1>4, <1>8
<1>11. new[id] = {} \/ \E r \in new[id] : pre[e].src \subseteq r.src
  BY <1>2, <1>6 DEF Differs
<1>12. certified[s][id] = {pre[e]} /\ DOMAIN certified[s] = E0
  BY <1>4, <1>6, <1>7
<1> HIDE DEF new, old, post, pre, e
<1>13. Becomes(s, id, pre[e], new[id])
  BY <1>10, <1>11, <1>12 DEF Becomes
<1> QED
  BY <1>1, <1>5, <1>9, <1>12, <1>13

\* Every step is one of the abstract memory's, or none.
LEMMA KindLogic ==
  ASSUME CInv, NEW t \in Tasks, Effect(t), Apart(t), Kind(t)
  PROVE  Logic!Next \/ UNCHANGED certified
<1>1. CASE Ends(t) \/ Makes(t) \/ Fills(t) \/ Aims(t) \/ Proceeds(t) \/ Reads(t)
  BY <1>1 DEF Ends, Makes, Fills, Aims, Proceeds, Reads, protocolVars
<1>2. CASE Clears(t)
  <2> DEFINE s == frame[t].handle
  <2>1. s \in States /\ certified' = [certified EXCEPT ![s] = Unbound]
    BY <1>2 DEF Clears
  <2>2. CASE certified[s] = Unbound
    BY <2>1, <2>2 DEF CInv, Typed
  <2>3. CASE certified[s] # Unbound
    <3>1. Logic!Close(s)
      BY <2>1, <2>3 DEF Logic!Close, Logic!Closed, Unbound
    <3> QED
      BY <2>1, <3>1 DEF Logic!Next
  <2> QED
    BY <2>2, <2>3
<1>3. CASE Opens(t)
  <2>1. PICK s \in States : s = frame[t].handle
    BY <1>3 DEF Opens, CInv, IInv, Ownership, Shape, Nothing, Making, Holding
  <2>2. PICK inv \in Inventories : inv = frame[t].inv
    BY <1>3 DEF Opens, CInv, Content, Framed
  <2> DEFINE line == RootLineage(rows[s], inv)
  <2>3. certified' = [certified EXCEPT ![s] = Logical(rows[s], line)]
    BY <1>3, <2>1, <2>2 DEF Opens, Register
  <2>4. SameKeys(rows[s], inv) /\ ~Repeats(inv) /\ rows[s] \in Stores
    BY <1>3, <2>1, <2>2 DEF Opens, CInv, Typed
  <2>5. \A id \in E0 : Logical(rows[s], line)[id] = {inv[id]}
    BY <2>4, RootIsInventory
  <2> HIDE DEF line
  <2>6. Logical(rows[s], line) = [id \in E0 |-> {inv[id]}]
    BY <2>5 DEF Logical
  <2>7. inv \in [E0 -> Rows] /\ \A i, j \in E0 : inv[i] = inv[j] => i = j
    BY <2>4, BackendAssumption DEF Repeats
  <2>8. certified[s] = Unbound
    BY <1>3, <2>1 DEF Opens, CInv, Content, Framed
  <2>9. Logic!Open(s)
    BY <2>3, <2>6, <2>7, <2>8 DEF Logic!Open, Logic!Closed, Unbound
  <2> QED
    BY <2>9 DEF Logic!Next
<1>4. CASE Accepts(t)
  <2>1. PICK s, id : s = held[t] /\ id = frame[t].art.target
    OBVIOUS
  <2>2. /\ s \in States /\ id \in E0 /\ DOMAIN certified[s] = E0
        /\ \E old \in Rows, new \in SUBSET Rows : Becomes(s, id, old, new)
    BY <1>4, <2>1, AcceptsTarget
  <2>3. PICK old \in Rows, new \in SUBSET Rows : Becomes(s, id, old, new)
    BY <2>2
  <2>4. Logic!Target(s, id)
    BY <2>2, <2>3 DEF Becomes, Logic!Target, Logic!Closed
  <2>5. Logic!Change(s, id) \/ Logic!Delete(s, id)
    <3>1. CASE new = {}
      BY <2>3, <2>4, <3>1 DEF Becomes, Logic!Delete
    <3>2. CASE \E r \in new : old.src \subseteq r.src
      BY <2>3, <2>4, <3>2 DEF Becomes, Logic!Change
    <3> QED
      BY <2>3, <3>1, <3>2 DEF Becomes
  <2> QED
    BY <2>2, <2>5 DEF Logic!Next
<1> QED
  BY <1>1, <1>2, <1>3, <1>4 DEF Kind

-----------------------------------------------------------------------------
(* Steps that the handlers share.                                            *)

LEMMA HolderFacts ==
  ASSUME CInv, NEW t \in Tasks
  PROVE  /\ pc[t] \in Holding => held[t] \in States /\ held[t] \in alive /\ frame[t].handle = NoState
         /\ pc[t] \in Making => frame[t].handle \in States /\ frame[t].handle \in alive /\ held[t] = NoState
BY DEF CInv, IInv, Ownership, Shape, Holding, Making, Nothing

LEMMA AMemAlone ==
  ASSUME CInv, NEW t \in Tasks, pc[t] \in Making \cup Holding
  PROVE  \A s \in alive : s = held[t] \/ s = frame[t].handle \/ profile # "a-mem"
<1>1. held[t] \in alive \/ frame[t].handle \in alive
  BY HolderFacts
<1> QED
  BY <1>1 DEF CInv, IInv, Owners

LEMMA ApartIntro ==
  ASSUME CInv, NEW t \in Tasks, NEW label \in Labels, Goto(t, label),
         UNCHANGED <<held, steps, context, lineage, certified>>,
         DOMAIN entity' = States,
         \A s \in States \ {held[t], frame[t].handle} : rows'[s] = rows[s] /\ entity'[s] = entity[s],
         \A s \in States : rows'[s] \in Stores,
         owner' \in States \cup {NoState}, alive \subseteq alive',
         \A s \in alive : s = held[t] \/ s = frame[t].handle \/ profile # "a-mem" \/ UNCHANGED collection
  PROVE  Apart(t)
<1>1. pc' = [pc EXCEPT ![t] = pc'[t]] /\ pc'[t] \in Labels
  BY DEF Goto, CInv, Typed
<1>2. held' = [held EXCEPT ![t] = held'[t]]
  BY DEF CInv, Typed
<1>3. steps' = [steps EXCEPT ![t] = steps'[t]] /\ steps'[t] \in 0..MaxReplays
  BY DEF CInv, Typed
<1> QED
  BY <1>1, <1>2, <1>3 DEF Apart, CInv, Typed

\* Nothing but the task's position, frame and the adapter's registries changes.
LEMMA StillApart ==
  ASSUME CInv, NEW t \in Tasks, NEW label \in Labels, Goto(t, label),
         UNCHANGED <<held, steps, rows, entity, context, lineage, certified>>,
         owner' \in States \cup {NoState}, alive \subseteq alive',
         \A s \in alive : s = held[t] \/ s = frame[t].handle \/ profile # "a-mem" \/ UNCHANGED collection
  PROVE  Apart(t)
<1>1. DOMAIN entity' = States /\ \A s \in States : rows'[s] \in Stores
  BY DEF CInv, Typed
<1> QED
  BY <1>1, ApartIntro

LEMMA FailEnds ==
  ASSUME CInv, NEW t \in Tasks, Fail(t) \/ NoRoot(t), UNCHANGED certified
  PROVE  Ends(t)
BY DEF Fail, NoRoot, Return, Goto, NoFrame, Ends, CInv, IInv, Shape

LEMMA RequestContent ==
  ASSUME CInv, NEW t \in Tasks, RootRequest(t)
  PROVE  Apart(t) /\ Kind(t)
<1>1. UNCHANGED <<held, steps, rows, entity, collection, context, lineage, certified, alive, owner>>
  BY DEF RootRequest, NoRoot, storeVars, protocolVars, adapterVars
<1>2. owner' \in States \cup {NoState}
  BY <1>1 DEF CInv, Typed
<1>3. CASE NoRoot(t)
  BY <1>1, <1>2, <1>3, StillApart, FailEnds DEF NoRoot, Return, Kind, Labels, Resting
<1>4. CASE ~NoRoot(t)
  <2>1. PICK inv \in Inventories :
          /\ frame' = [frame EXCEPT ![t] = [NoFrame EXCEPT !.inv = inv]] /\ Goto(t, "create")
    BY <1>4 DEF RootRequest
  <2>2. frame'[t].inv = inv /\ frame'[t].art = NoArtifact /\ pc'[t] = "create"
    BY <2>1 DEF NoFrame, Goto, CInv, IInv, Shape
  <2>3. Ends(t)
    BY <1>1, <2>2 DEF Ends
  <2> QED
    BY <1>1, <1>2, <2>1, <2>3, StillApart DEF Kind, Labels
<1> QED
  BY <1>3, <1>4

LEMMA DiscardContent ==
  ASSUME CInv, NEW t \in Tasks, Discard(t)
  PROVE  Apart(t) /\ Kind(t)
<1>1. /\ pc' = [pc EXCEPT ![t] = "teardown"] /\ held' = [held EXCEPT ![t] = NoState]
      /\ steps' = [steps EXCEPT ![t] = 0]
      /\ frame' = [frame EXCEPT ![t].handle = held[t]]
      /\ context' = [context EXCEPT ![held[t]] = Unbound]
      /\ UNCHANGED <<rows, entity, collection, lineage, certified, alive, owner>>
  BY DEF Discard, Goto, storeVars, adapterVars
<1>2. pc'[t] = "teardown" /\ held'[t] = NoState /\ steps'[t] = 0 /\ frame'[t].art = frame[t].art
  BY <1>1 DEF CInv, IInv, Shape, Typed
<1>3. Ends(t)
  BY <1>1, <1>2 DEF Ends, CInv, Content, Framed
<1>4. 0 \in 0..MaxReplays
  BY BackendAssumption
<1>5. pc' = [pc EXCEPT ![t] = pc'[t]] /\ held' = [held EXCEPT ![t] = held'[t]]
      /\ steps' = [steps EXCEPT ![t] = steps'[t]]
  BY <1>1, <1>2
<1>6. \A s \in States : context'[s] \in Inventories \cup {Unbound}
  BY <1>1 DEF CInv, Typed, IInv, Shape
<1>7. Apart(t)
  BY <1>1, <1>2, <1>4, <1>5, <1>6 DEF Apart, Labels, CInv, Typed
<1> QED
  BY <1>3, <1>7 DEF Kind

\* A teardown, or the failing ingestion of MemOS.
LEMMA ForgetContent ==
  ASSUME CInv, NEW t \in Tasks, pc[t] \in Making, Return(t, "idle"), UNCHANGED <<held, steps>>,
         Forget(frame[t].handle)
  PROVE  Apart(t) /\ Kind(t)
<1> DEFINE s == frame[t].handle
<1>1. s \in States
  BY HolderFacts
<1>2. /\ pc' = [pc EXCEPT ![t] = "idle"] /\ pc'[t] = "idle" /\ frame'[t] = NoFrame
      /\ pc' = [pc EXCEPT ![t] = pc'[t]]
  BY DEF Return, Goto, CInv, IInv, Shape
<1>3. held' = [held EXCEPT ![t] = held'[t]] /\ steps' = [steps EXCEPT ![t] = steps'[t]]
      /\ steps'[t] \in 0..MaxReplays
  BY DEF CInv, Typed
<1>4. /\ alive' = alive \ {s} /\ owner' \in {owner, NoState}
      /\ context' = [context EXCEPT ![s] = Unbound] /\ rows' = [rows EXCEPT ![s] = Unbound]
      /\ entity' = [entity EXCEPT ![s] = << >>] /\ lineage' = [lineage EXCEPT ![s] = Unbound]
      /\ certified' = [certified EXCEPT ![s] = Unbound]
  BY DEF Forget
<1>5. Clears(t)
  BY <1>1, <1>2, <1>4 DEF Clears, NoFrame
<1>6. \A r \in States \ {s} : /\ rows'[r] = rows[r] /\ lineage'[r] = lineage[r]
                              /\ entity'[r] = entity[r] /\ certified'[r] = certified[r]
                              /\ context'[r] = context[r]
  <2>1. DOMAIN certified = States /\ DOMAIN lineage = States /\ DOMAIN entity = States
        /\ DOMAIN rows = States /\ DOMAIN context = States
    BY DEF CInv, Typed, IInv, Shape
  <2> HIDE DEF s
  <2> QED
    BY ONLY <1>4, <2>1
<1>7. rows'[s] = Unbound /\ context'[s] = Unbound /\ lineage'[s] = Unbound /\ certified'[s] = Unbound
  BY <1>1, <1>4 DEF CInv, Typed, IInv, Shape
<1>8. DOMAIN Unbound = {} /\ Unbound \in Stores
  BY UnboundStore DEF Unbound
<1>9. certified' = [r \in States |-> certified'[r]] /\ DOMAIN lineage' = States /\ DOMAIN entity' = States
  BY <1>4 DEF CInv, Typed
<1>10. \A r \in alive : r = held[t] \/ r = s \/ profile # "a-mem" \/ UNCHANGED collection
  BY AMemAlone
<1>11. \A r \in States : /\ rows'[r] \in Stores /\ context'[r] \in Inventories \cup {Unbound}
                         /\ \A x \in DOMAIN lineage'[r] : lineage'[r][x] \in E0
  <2> SUFFICES ASSUME NEW r \in States
               PROVE  /\ rows'[r] \in Stores /\ context'[r] \in Inventories \cup {Unbound}
                      /\ \A x \in DOMAIN lineage'[r] : lineage'[r][x] \in E0
    OBVIOUS
  <2>1. CASE r = s
    BY <1>7, <1>8, <2>1
  <2>2. CASE r # s
    BY <1>6, <2>2 DEF CInv, Typed
  <2> QED
    BY <2>1, <2>2
<1>12. owner' \in States \cup {NoState}
  BY <1>4 DEF CInv, Typed
<1>13. Apart(t)
  <2>1. \A r \in States : \/ r = held[t] \/ r = frame[t].handle
                         \/ /\ rows'[r] = rows[r] /\ lineage'[r] = lineage[r]
                            /\ entity'[r] = entity[r] /\ certified'[r] = certified[r]
    BY <1>6
  <2>2. \A r \in alive \ alive' : certified'[r] = Unbound
    BY <1>4, <1>7
  <2>3. \A r \in alive : r = held[t] \/ r = frame[t].handle \/ profile # "a-mem" \/ UNCHANGED collection
    BY <1>10
  <2>4. pc'[t] \in Labels
    BY <1>2 DEF Labels, Resting
  <2> HIDE DEF s
  <2> QED
    BY ONLY <1>2, <1>3, <1>9, <1>11, <1>12, <2>1, <2>2, <2>3, <2>4 DEF Apart
<1> QED
  BY <1>5, <1>13 DEF Kind

\* A root is registered, or abandoned.
LEMMA BindContent ==
  ASSUME CInv, NEW t \in Tasks, pc[t] = "bind", UNCHANGED <<storeVars, adapterVars>>,
         (Abandon(t) /\ UNCHANGED protocolVars) \/ Opens(t)
  PROVE  Apart(t) /\ Kind(t)
<1>1. owner' \in States \cup {NoState} /\ alive' = alive
  BY DEF adapterVars, CInv, Typed
<1>2. CASE Abandon(t) /\ UNCHANGED protocolVars
  <2>1. Goto(t, "teardown") /\ pc'[t] = "teardown" /\ UNCHANGED <<frame, held, steps>>
    BY <1>2 DEF Abandon, Goto, CInv, IInv, Shape
  <2>2. Ends(t)
    BY <1>2, <2>1 DEF Ends, CInv, Content, Framed, protocolVars
  <2>3. Apart(t)
    BY <1>1, <1>2, <2>1, StillApart DEF storeVars, protocolVars, adapterVars, Labels
  <2> QED
    BY <2>2, <2>3 DEF Kind
<1>3. CASE Opens(t)
  <2>1. PICK s \in States : s = frame[t].handle
    BY HolderFacts DEF Making
  <2>2. PICK inv \in Inventories : inv = frame[t].inv
    BY DEF CInv, Content, Framed
  <2> DEFINE line == RootLineage(rows[s], inv)
  <2>3. \A e \in DOMAIN line : line[e] \in E0
    <3>1. rows[s] \in Stores /\ SameKeys(rows[s], inv) /\ ~Repeats(inv)
      BY <1>3, <2>1, <2>2 DEF Opens, CInv, Typed
    <3>2. DOMAIN line = DOMAIN rows[s]
      BY DEF RootLineage
    <3> QED
      BY <3>1, <3>2, RootIsInventory
  <2> HIDE DEF line
  <2>4. /\ context' = [context EXCEPT ![s] = inv] /\ lineage' = [lineage EXCEPT ![s] = line]
        /\ certified' = [certified EXCEPT ![s] = Logical(rows[s], line)]
        /\ held' = [held EXCEPT ![t] = s] /\ steps' = [steps EXCEPT ![t] = 0]
        /\ pc' = [pc EXCEPT ![t] = "own"]
    BY <1>3, <2>1, <2>2 DEF Opens, Register, Return, Goto, line
  <2>5. pc'[t] = "own" /\ held'[t] = s /\ steps'[t] = 0 /\ 0 \in 0..MaxReplays
    BY <2>4, BackendAssumption DEF CInv, Typed, IInv, Shape
  <2>6. UNCHANGED <<rows, entity, collection>>
    BY DEF storeVars
  <2>7. \A r \in States \ {s} : /\ lineage'[r] = lineage[r] /\ certified'[r] = certified[r]
                                /\ context'[r] = context[r]
    <3>1. DOMAIN certified = States /\ DOMAIN lineage = States /\ DOMAIN context = States
      BY DEF CInv, Typed, IInv, Shape
    <3> QED
      BY ONLY <2>4, <3>1
  <2>8. lineage'[s] = line /\ context'[s] = inv
    BY <2>4 DEF CInv, Typed, IInv, Shape
  <2>9. certified' = [r \in States |-> certified'[r]] /\ DOMAIN lineage' = States /\ DOMAIN entity' = States
    BY <2>4, <2>6 DEF CInv, Typed
  <2>10. \A r \in States : /\ rows'[r] \in Stores /\ context'[r] \in Inventories \cup {Unbound}
                           /\ \A x \in DOMAIN lineage'[r] : lineage'[r][x] \in E0
    BY <2>3, <2>6, <2>7, <2>8 DEF CInv, Typed
  <2>11. \A r \in States : \/ r = held[t] \/ r = frame[t].handle
                          \/ /\ rows'[r] = rows[r] /\ lineage'[r] = lineage[r]
                             /\ entity'[r] = entity[r] /\ certified'[r] = certified[r]
    BY <2>1, <2>6, <2>7
  <2>12. pc'[t] \in Labels /\ pc' = [pc EXCEPT ![t] = pc'[t]]
    BY <2>4, <2>5 DEF Labels, Resting
  <2>13. held' = [held EXCEPT ![t] = held'[t]] /\ steps' = [steps EXCEPT ![t] = steps'[t]]
    BY <2>4, <2>5
  <2>14. Apart(t)
    BY <1>1, <2>5, <2>6, <2>9, <2>10, <2>11, <2>12, <2>13 DEF Apart
  <2> QED
    BY <1>3, <2>14 DEF Kind
<1> QED
  BY <1>2, <1>3

\* A transition is accepted.
LEMMA AcceptContent ==
  ASSUME CInv, NEW t \in Tasks, Accepts(t), UNCHANGED adapterVars,
         \A s \in States : \A x \in DOMAIN lineage'[s] : lineage'[s][x] \in E0
  PROVE  Apart(t) /\ Kind(t)
<1>1. owner' \in States \cup {NoState} /\ alive' = alive
  BY DEF adapterVars, CInv, Typed
<1>2. PICK s \in States : s = held[t]
  BY HolderFacts DEF Accepts, Holding
<1>3. PICK line : Accept(t, s, line)
  BY <1>2 DEF Accepts
<1>4. /\ lineage' = [lineage EXCEPT ![s] = line]
      /\ certified' = [certified EXCEPT ![s] = Logical(rows[s], line)]
      /\ held' = held /\ context' = context /\ steps' = [steps EXCEPT ![t] = steps[t] + 1]
      /\ pc' = [pc EXCEPT ![t] = "own"]
  BY <1>3 DEF Accept, Return, Goto
<1>5. steps[t] < MaxReplays /\ steps[t] \in 0..MaxReplays
  BY DEF Accepts, CInv, Content, Aimed, OnState, Typed
<1>6. pc'[t] = "own" /\ steps'[t] = steps[t] + 1 /\ steps[t] + 1 \in 0..MaxReplays
  <2>1. steps[t] + 1 \in 0..MaxReplays
    BY <1>5, BackendAssumption
  <2> QED
    BY <1>4, <2>1 DEF CInv, Typed, IInv, Shape
<1>7. UNCHANGED <<rows, entity, collection>>
  BY DEF Accepts, storeVars
<1>8. \A r \in States \ {s} : lineage'[r] = lineage[r] /\ certified'[r] = certified[r]
  <2>1. DOMAIN certified = States /\ DOMAIN lineage = States
    BY DEF CInv, Typed
  <2> QED
    BY ONLY <1>4, <2>1
<1>9. certified' = [r \in States |-> certified'[r]] /\ DOMAIN lineage' = States /\ DOMAIN entity' = States
  BY <1>4, <1>7 DEF CInv, Typed
<1>10. \A r \in States : rows'[r] \in Stores /\ context'[r] \in Inventories \cup {Unbound}
  BY <1>4, <1>7 DEF CInv, Typed
<1>11. held' = [held EXCEPT ![t] = held'[t]]
  BY <1>4 DEF CInv, Typed
<1>12. pc' = [pc EXCEPT ![t] = pc'[t]] /\ steps' = [steps EXCEPT ![t] = steps'[t]]
      /\ steps'[t] \in 0..MaxReplays
  BY <1>4, <1>6
<1>13. Apart(t)
  <2>1. \A r \in States : \/ r = held[t] \/ r = frame[t].handle
                         \/ /\ rows'[r] = rows[r] /\ lineage'[r] = lineage[r]
                            /\ entity'[r] = entity[r] /\ certified'[r] = certified[r]
    BY <1>2, <1>7, <1>8
  <2>2. pc'[t] \in Labels
    BY <1>6 DEF Labels, Resting
  <2>3. \A r \in States : \A x \in DOMAIN lineage'[r] : lineage'[r][x] \in E0
    OBVIOUS
  <2> QED
    BY <1>1, <1>7, <1>9, <1>10, <1>11, <1>12, <2>1, <2>2, <2>3 DEF Apart
<1> QED
  BY <1>13 DEF Kind

\* Calls that read, and calls that fail before or after they changed the store.
LEMMA ReadContent ==
  ASSUME CInv, NEW t \in Tasks, NEW from \in {"own", "certified"}, NEW to \in {"certified", "observed"},
         NEW ready, Read(t, from, to, ready)
  PROVE  Apart(t) /\ Kind(t)
<1>1. /\ pc[t] = from /\ UNCHANGED <<held, steps, storeVars, protocolVars, adapterVars>>
  BY DEF Read, At, Fail
<1>2. owner' \in States \cup {NoState} /\ alive' = alive
  BY <1>1 DEF adapterVars, CInv, Typed
<1>3. PICK label \in {"failed", "certified", "observed"} : Return(t, label) /\ (Fail(t) \/ label # "failed")
  BY DEF Read, Fail
<1>4. pc'[t] = label /\ frame'[t].art = NoArtifact /\ Goto(t, label)
  BY <1>3 DEF Return, Goto, NoFrame, CInv, IInv, Shape
<1>5. Apart(t)
  BY <1>1, <1>2, <1>4, StillApart DEF storeVars, protocolVars, Labels, Resting
<1>6. Ends(t) \/ Reads(t)
  BY <1>1, <1>4 DEF Ends, Reads, protocolVars
<1> QED
  BY <1>5, <1>6 DEF Kind

\* A call on a held state that changed its rows, and failed or goes on.
LEMMA ApplyContent ==
  ASSUME CInv, NEW t \in Tasks, pc[t] \in {"evidence", "apply"},
         \/ Fail(t)
         \/ (\E label \in {"apply", "verify"} : Goto(t, label)) /\ UNCHANGED <<held, steps, frame>>,
         UNCHANGED <<protocolVars, alive, owner>>, DOMAIN entity' = States,
         \A s \in States \ {held[t]} : rows'[s] = rows[s] /\ entity'[s] = entity[s],
         \A s \in States : rows'[s] \in Stores
  PROVE  Apart(t) /\ Kind(t)
<1>1. owner' \in States \cup {NoState} /\ alive' = alive
  BY DEF CInv, Typed
<1>2. UNCHANGED <<held, steps, context, lineage, certified>>
  BY DEF Fail, protocolVars
<1>3. PICK label \in {"failed", "apply", "verify"} :
        Goto(t, label) /\ (Fail(t) \/ (label # "failed" /\ UNCHANGED frame))
  BY DEF Fail, Return
<1>4. pc'[t] = label
  BY <1>3 DEF Goto, CInv, IInv, Shape
<1>5. \A s \in alive : s = held[t] \/ s = frame[t].handle \/ profile # "a-mem" \/ UNCHANGED collection
  BY AMemAlone DEF Holding
<1>6. Apart(t)
  BY <1>1, <1>2, <1>3, <1>5, ApartIntro DEF Labels, Resting
<1>7. Ends(t) \/ Proceeds(t)
  BY <1>2, <1>3, <1>4, FailEnds DEF Proceeds
<1> QED
  BY <1>6, <1>7 DEF Kind

\* A mutation is aimed at its target, or the call fails.
LEMMA ReplayContent ==
  ASSUME CInv, NEW t \in Tasks, pc[t] = "own", steps[t] < MaxReplays,
         \/ Fail(t)
         \/ \E art \in Artifacts, e \in DOMAIN rows[held[t]], label \in {"evidence", "apply"} :
              Aim(t, held[t], art, e, rows[held[t]], label),
         UNCHANGED <<storeVars, protocolVars, adapterVars>>
  PROVE  Apart(t) /\ Kind(t)
<1>1. owner' \in States \cup {NoState} /\ alive' = alive
  BY DEF adapterVars, CInv, Typed
<1>2. UNCHANGED <<held, steps>>
  BY DEF Fail, Aim
<1>3. PICK label \in {"failed", "evidence", "apply"} : Goto(t, label)
  BY DEF Fail, Return, Aim
<1>4. Apart(t)
  BY <1>1, <1>2, <1>3, StillApart DEF storeVars, protocolVars, Labels, Resting
<1>5. Ends(t) \/ Aims(t)
  BY FailEnds DEF Aims, protocolVars
<1> QED
  BY <1>4, <1>5 DEF Kind

\* A state is made, or the process has one, or the factory raised.
LEMMA CreateContent ==
  ASSUME CInv, NEW t \in Tasks, pc[t] = "create",
         \/ NoRoot(t) /\ UNCHANGED alive
         \/ /\ Goto(t, "ingest")
            /\ \E s \in States \ alive :
                 alive' = alive \cup {s} /\ frame' = [frame EXCEPT ![t].handle = s],
         UNCHANGED <<held, steps, rows, entity, protocolVars>>,
         profile = "a-mem" /\ alive # {} => UNCHANGED collection,
         owner' \in States \cup {NoState}
  PROVE  Apart(t) /\ Kind(t)
<1>1. PICK label \in {"idle", "ingest"} : Goto(t, label)
  BY DEF NoRoot, Return
<1>2. Apart(t)
  BY <1>1, StillApart DEF protocolVars, Labels, Resting
<1>3. CASE NoRoot(t)
  BY <1>2, <1>3, FailEnds DEF protocolVars, Kind
<1>4. CASE ~NoRoot(t)
  <2>1. PICK s \in States \ alive : frame' = [frame EXCEPT ![t].handle = s]
    BY <1>4
  <2>2. frame'[t] = [frame[t] EXCEPT !.handle = s] /\ pc'[t] = "ingest"
    BY <1>4, <2>1 DEF Goto, CInv, IInv, Shape
  <2> QED
    BY <1>2, <2>2 DEF Makes, Kind, protocolVars
<1> QED
  BY <1>3, <1>4

\* A state is filled, or its ingestion raised.
LEMMA IngestContent ==
  ASSUME CInv, NEW t \in Tasks, pc[t] = "ingest",
         \/ NoRoot(t) /\ UNCHANGED <<rows, entity>>
         \/ /\ Goto(t, "bind") /\ UNCHANGED <<held, steps, frame>>
            /\ DOMAIN entity' = States
            /\ \A s \in States \ {frame[t].handle} : rows'[s] = rows[s] /\ entity'[s] = entity[s]
            /\ \E f \in FreshStores : rows' = [rows EXCEPT ![frame[t].handle] = f],
         UNCHANGED <<protocolVars, alive, owner>>
  PROVE  Apart(t) /\ Kind(t)
<1>1. owner' \in States \cup {NoState} /\ alive' = alive
  BY DEF CInv, Typed
<1>2. \A s \in alive : s = held[t] \/ s = frame[t].handle \/ profile # "a-mem" \/ UNCHANGED collection
  BY AMemAlone DEF Making
<1>3. CASE NoRoot(t) /\ UNCHANGED <<rows, entity>>
  <2>1. Apart(t)
    BY <1>1, <1>2, <1>3, StillApart DEF NoRoot, Return, protocolVars, Labels, Resting
  <2> QED
    BY <1>3, <2>1, FailEnds DEF protocolVars, Kind
<1>4. CASE ~(NoRoot(t) /\ UNCHANGED <<rows, entity>>)
  <2>1. \A s \in States : rows'[s] \in Stores
    BY <1>4, FreshStore DEF CInv, Typed, IInv, Shape
  <2>2. Apart(t)
    BY <1>1, <1>2, <1>4, <2>1, ApartIntro DEF protocolVars, Labels
  <2>3. Fills(t)
    BY <1>4 DEF Fills, Goto, protocolVars, CInv, IInv, Shape
  <2> QED
    BY <2>2, <2>3 DEF Kind
<1> QED
  BY <1>3, <1>4

\* A check after the mutation fails: the state keeps what was done to it.
LEMMA RefuseContent ==
  ASSUME CInv, NEW t \in Tasks, pc[t] = "verify", Fail(t),
         UNCHANGED <<storeVars, protocolVars, adapterVars>>
  PROVE  Apart(t) /\ Kind(t)
<1>1. owner' \in States \cup {NoState} /\ alive' = alive
  BY DEF adapterVars, CInv, Typed
<1>2. Goto(t, "failed") /\ UNCHANGED <<held, steps>>
  BY DEF Fail, Return
<1>3. Apart(t)
  BY <1>1, <1>2, StillApart DEF storeVars, protocolVars, Labels, Resting
<1> QED
  BY <1>3, FailEnds DEF protocolVars, Kind

\* A transition that kept the IDs of the entries it did not delete is accepted.
LEMMA InPlaceContent ==
  ASSUME CInv, NEW t \in Tasks, pc[t] = "verify", profile # "graphiti",
         NEW pre, pre = frame[t].pre, NEW e, e = frame[t].target[1], NEW s, s = held[t],
         Accept(t, s, lineage[s]),
         DOMAIN rows[s] \subseteq DOMAIN pre,
         \A x \in DOMAIN pre \ {e} : x \in DOMAIN rows[s] /\ rows[s][x] = pre[x],
         e \in DOMAIN rows[s] => pre[e].src \subseteq rows[s][e].src,
         profile = "mem0" => Mem0AuxiliaryOK(s), profile = "a-mem" => AMemInventoryOK(s),
         UNCHANGED <<storeVars, adapterVars>>
  PROVE  Apart(t) /\ Kind(t)
<1>1. s \in States
  BY HolderFacts DEF Holding
<1>2. /\ e \in DOMAIN pre /\ DOMAIN pre \subseteq DOMAIN lineage[s]
      /\ \A x \in DOMAIN pre : lineage[s][x] = frame[t].art.target <=> x = e
  BY DEF CInv, Content, Aimed, OnState
<1>3. Differs(pre, rows[s], lineage[s], lineage[s], frame[t].art.target, e)
  BY <1>2 DEF Differs
<1>4. DOMAIN rows[s] \subseteq DOMAIN lineage[s]
  BY <1>2
<1>5. Accepts(t)
  BY <1>3, <1>4 DEF Accepts
<1>6. lineage' = [lineage EXCEPT ![s] = lineage[s]]
  BY DEF Accept
<1>7. \A r \in States : \A x \in DOMAIN lineage'[r] : lineage'[r][x] \in E0
  BY <1>1, <1>6 DEF CInv, Typed
<1>8. UNCHANGED adapterVars
  OBVIOUS
<1> QED
  BY <1>5, <1>7, <1>8, AcceptContent

-----------------------------------------------------------------------------
(* The handlers of each back end.                                            *)

\* The intended rows are rows, and so is what is near them.
LEMMA IntendedStore ==
  ASSUME NEW pre \in Stores, NEW e \in DOMAIN pre, NEW art \in Artifacts
  PROVE  /\ \A g \in Near(Mem0Intended(pre, e, art)) : g \in Stores
         /\ Mem0Intended(pre, e, art) \in Stores
         /\ \A g \in Near(AMemIntended(pre, e, art)) : g \in Stores
         /\ AMemIntended(pre, e, art) \in Stores
         /\ \A g \in Near(MemosIntended(pre, e, art)) : g \in Stores
<1>1. e \in Entries /\ pre[e] \in Rows
  BY StoreType
<1>2. art.op # "delete" => /\ Row(art.text, pre[e].src) \in Rows
                           /\ Row(art.text, pre[e].src \cup art.src) \in Rows
  BY <1>1, RowAssumption
<1>3. Mem0Intended(pre, e, art) \in Stores
  BY <1>1, <1>2, WithStore, WithoutStore DEF Mem0Intended
<1>4. AMemIntended(pre, e, art) \in Stores
  BY <1>1, <1>2, WithStore, WithoutStore DEF AMemIntended
<1>5. MemosIntended(pre, e, art) \in Stores
  BY <1>1, <1>2, WithStore, WithoutStore DEF MemosIntended
<1> QED
  BY <1>3, <1>4, <1>5, NearStore

LEMMA AimedFacts ==
  ASSUME CInv, NEW t \in Tasks, pc[t] \in OnState
  PROVE  /\ held[t] \in States /\ frame[t].art \in Artifacts /\ frame[t].pre \in Stores
         /\ frame[t].target[1] \in DOMAIN frame[t].pre
BY HolderFacts DEF CInv, Content, Aimed, OnState, Holding

LEMMA Mem0Content ==
  ASSUME CInv, NEW t \in Tasks, profile = "mem0", Mem0Step(t)
  PROVE  Apart(t) /\ Kind(t)
<1>1. CASE Mem0Root(t)
  BY <1>1, RequestContent DEF Mem0Root
<1>2. CASE Mem0Create(t)
  <2>1. pc[t] = "create" /\ UNCHANGED <<held, steps, rows, entity, protocolVars>>
        /\ owner' \in States \cup {NoState}
    BY <1>2 DEF Mem0Create, At, NoRoot, storeVars, adapterVars, CInv, Typed
  <2>2. \/ NoRoot(t) /\ UNCHANGED alive
        \/ /\ Goto(t, "ingest")
           /\ \E s \in States \ alive :
                alive' = alive \cup {s} /\ frame' = [frame EXCEPT ![t].handle = s]
    BY <1>2 DEF Mem0Create, adapterVars
  <2> QED
    BY <2>1, <2>2, CreateContent
<1>3. CASE Mem0Ingest(t)
  <2>1. pc[t] = "ingest" /\ UNCHANGED <<protocolVars, alive, owner>>
    BY <1>3 DEF Mem0Ingest, At, adapterVars
  <2>2. CASE NoRoot(t) /\ UNCHANGED storeVars
    BY <2>1, <2>2, IngestContent DEF storeVars
  <2>3. CASE ~(NoRoot(t) /\ UNCHANGED storeVars)
    <3>1. PICK f \in FreshStores, links \in {<< >>, <<{}>>} :
            /\ rows' = [rows EXCEPT ![frame[t].handle] = f]
            /\ entity' = [entity EXCEPT ![frame[t].handle] = links]
            /\ Goto(t, "bind")
            /\ UNCHANGED <<held, steps, frame, collection>>
      BY <1>3, <2>3 DEF Mem0Ingest
    <3>2. DOMAIN entity = States /\ DOMAIN rows = States
      BY DEF CInv, Typed, IInv, Shape
    <3>3. /\ DOMAIN entity' = States
          /\ \A s \in States \ {frame[t].handle} : rows'[s] = rows[s] /\ entity'[s] = entity[s]
      BY <3>1, <3>2
    <3> QED
      BY <2>1, <3>1, <3>3, IngestContent
  <2> QED
    BY <2>2, <2>3
<1>4. CASE Mem0Bind(t)
  <2>1. Opens(t) \/ (Abandon(t) /\ UNCHANGED protocolVars)
    BY <1>4 DEF Mem0Bind, Mem0Rebinding, Mem0Inventory, Opens, At, storeVars
  <2>2. pc[t] = "bind" /\ UNCHANGED <<storeVars, adapterVars>>
    BY <1>4 DEF Mem0Bind, At
  <2> QED
    BY <2>1, <2>2, BindContent
<1>5. CASE Mem0Retire(t)
  BY <1>5, ForgetContent DEF Mem0Retire, TearDown, At, Making
<1>6. CASE Mem0Replay(t)
  <2>1. pc[t] = "own" /\ steps[t] < MaxReplays /\ UNCHANGED <<storeVars, protocolVars, adapterVars>>
    BY <1>6 DEF Mem0Replay, At
  <2>2. \/ Fail(t)
        \/ \E art \in Artifacts, e \in DOMAIN rows[held[t]], label \in {"evidence", "apply"} :
             Aim(t, held[t], art, e, rows[held[t]], label)
    BY <1>6 DEF Mem0Replay, Mem0Inventory
  <2> QED
    BY <2>1, <2>2, ReplayContent
<1>7. CASE Mem0Apply(t)
  <2>1. pc[t] = "apply" /\ UNCHANGED <<protocolVars, alive, owner>>
    BY <1>7 DEF Mem0Apply, At, adapterVars
  <2>2. PICK o \in Mem0Outcomes(held[t], Mem0Intended(frame[t].pre, frame[t].target[1], frame[t].art)) :
          /\ rows' = [rows EXCEPT ![held[t]] = o[1]]
          /\ entity' = [entity EXCEPT ![held[t]] = o[2]]
          /\ Fail(t) \/ (Goto(t, "verify") /\ UNCHANGED <<held, steps, frame>>)
    BY <1>7 DEF Mem0Apply
  <2>3. o[1] \in Stores
    BY <2>1, AimedFacts, IntendedStore DEF Mem0Outcomes, OnState
  <2>4. DOMAIN entity = States /\ DOMAIN rows = States /\ \A s \in States : rows[s] \in Stores
    BY DEF CInv, Typed, IInv, Shape
  <2>5. /\ DOMAIN entity' = States /\ \A s \in States : rows'[s] \in Stores
        /\ \A s \in States \ {held[t]} : rows'[s] = rows[s] /\ entity'[s] = entity[s]
    BY <2>2, <2>3, <2>4
  <2> QED
    BY <2>1, <2>2, <2>5, ApplyContent
<1>8. CASE Mem0Verify(t)
  <2>1. pc[t] = "verify" /\ UNCHANGED <<storeVars, adapterVars>>
    BY <1>8 DEF Mem0Verify, At
  <2>2. CASE Fail(t) /\ UNCHANGED protocolVars
    BY <2>1, <2>2, RefuseContent
  <2>3. CASE ~(Fail(t) /\ UNCHANGED protocolVars)
    <3>1. PICK s, e, pre : s = held[t] /\ e = frame[t].target[1] /\ pre = frame[t].pre
      OBVIOUS
    <3>2. /\ Mem0AuxiliaryOK(s) /\ Accept(t, s, lineage[s])
          /\ \/ Mem0DeleteDiff(pre, rows[s], e)
             \/ Mem0UpdateDiff(pre, rows[s], e, frame[t].art)
      BY <1>8, <2>3, <3>1 DEF Mem0Verify, Mem0Inventory
    <3>3. /\ DOMAIN rows[s] \subseteq DOMAIN pre
          /\ \A x \in DOMAIN pre \ {e} : x \in DOMAIN rows[s] /\ rows[s][x] = pre[x]
          /\ e \in DOMAIN rows[s] => pre[e].src \subseteq rows[s][e].src
      BY <3>2 DEF Mem0DeleteDiff, Mem0UpdateDiff, Changed
    <3> QED
      BY <2>1, <3>1, <3>2, <3>3, InPlaceContent
  <2> QED
    BY <2>2, <2>3
<1>9. CASE Mem0Certify(t)
  BY <1>9, ReadContent DEF Mem0Certify
<1>10. CASE Mem0Retrieve(t)
  BY <1>10, ReadContent DEF Mem0Retrieve
<1> QED
  BY <1>1, <1>2, <1>3, <1>4, <1>5, <1>6, <1>7, <1>8, <1>9, <1>10 DEF Mem0Step

LEMMA AMemContent ==
  ASSUME CInv, NEW t \in Tasks, profile = "a-mem", AMemStep(t)
  PROVE  Apart(t) /\ Kind(t)
<1>1. CASE AMemRoot(t)
  BY <1>1, RequestContent DEF AMemRoot
<1>2. CASE AMemCreate(t)
  <2>1. pc[t] = "create" /\ UNCHANGED <<held, steps, rows, entity, protocolVars>>
        /\ owner' \in States \cup {NoState} /\ (alive # {} => UNCHANGED collection)
    BY <1>2 DEF AMemCreate, AMemBusy, At, NoRoot, adapterVars, CInv, Typed
  <2>2. \/ NoRoot(t) /\ UNCHANGED alive
        \/ /\ Goto(t, "ingest")
           /\ \E s \in States \ alive :
                alive' = alive \cup {s} /\ frame' = [frame EXCEPT ![t].handle = s]
    BY <1>2 DEF AMemCreate, adapterVars
  <2> QED
    BY <2>1, <2>2, CreateContent
<1>3. CASE AMemIngest(t)
  <2>1. pc[t] = "ingest" /\ UNCHANGED <<entity, protocolVars, alive, owner>>
    BY <1>3 DEF AMemIngest, At, adapterVars
  <2>2. CASE NoRoot(t) /\ UNCHANGED rows
    BY <2>1, <2>2, IngestContent
  <2>3. CASE ~(NoRoot(t) /\ UNCHANGED rows)
    <3>1. PICK f \in FreshStores :
            /\ rows' = [rows EXCEPT ![frame[t].handle] = f]
            /\ Goto(t, "bind")
            /\ UNCHANGED <<held, steps, frame>>
      BY <1>3, <2>3 DEF AMemIngest
    <3>2. DOMAIN entity = States /\ DOMAIN rows = States
      BY DEF CInv, Typed, IInv, Shape
    <3>3. /\ DOMAIN entity' = States
          /\ \A s \in States \ {frame[t].handle} : rows'[s] = rows[s] /\ entity'[s] = entity[s]
      BY <2>1, <3>1, <3>2
    <3> QED
      BY <2>1, <3>1, <3>3, IngestContent
  <2> QED
    BY <2>2, <2>3
<1>4. CASE AMemBind(t)
  <2>1. Opens(t) \/ (Abandon(t) /\ UNCHANGED protocolVars)
    BY <1>4 DEF AMemBind, AMemInventory, Opens, At, storeVars
  <2>2. pc[t] = "bind" /\ UNCHANGED <<storeVars, adapterVars>>
    BY <1>4 DEF AMemBind, At
  <2> QED
    BY <2>1, <2>2, BindContent
<1>5. CASE AMemRetire(t)
  BY <1>5, ForgetContent DEF AMemRetire, TearDown, At, Making
<1>6. CASE AMemReplay(t)
  <2>1. pc[t] = "own" /\ steps[t] < MaxReplays /\ UNCHANGED <<storeVars, protocolVars, adapterVars>>
    BY <1>6 DEF AMemReplay, At
  <2>2. \/ Fail(t)
        \/ \E art \in Artifacts, e \in DOMAIN rows[held[t]], label \in {"evidence", "apply"} :
             Aim(t, held[t], art, e, rows[held[t]], label)
    BY <1>6 DEF AMemReplay, AMemInventory
  <2> QED
    BY <2>1, <2>2, ReplayContent
<1>7. CASE AMemApply(t)
  <2>1. pc[t] = "apply" /\ UNCHANGED <<entity, protocolVars, alive, owner>>
    BY <1>7 DEF AMemApply, At, adapterVars
  <2>2. PICK o \in AMemOutcomes(AMemIntended(frame[t].pre, frame[t].target[1], frame[t].art)) :
          /\ rows' = [rows EXCEPT ![held[t]] = o[1]]
          /\ Fail(t) \/ (Goto(t, "verify") /\ UNCHANGED <<held, steps, frame>>)
    BY <1>7 DEF AMemApply
  <2>3. o[1] \in Stores
    BY <2>1, AimedFacts, IntendedStore DEF AMemOutcomes, OnState
  <2>4. DOMAIN entity = States /\ DOMAIN rows = States /\ \A s \in States : rows[s] \in Stores
    BY DEF CInv, Typed, IInv, Shape
  <2>5. /\ DOMAIN entity' = States /\ \A s \in States : rows'[s] \in Stores
        /\ \A s \in States \ {held[t]} : rows'[s] = rows[s] /\ entity'[s] = entity[s]
    BY <2>1, <2>2, <2>3, <2>4
  <2> QED
    BY <2>1, <2>2, <2>5, ApplyContent
<1>8. CASE AMemVerify(t)
  <2>1. pc[t] = "verify" /\ UNCHANGED <<storeVars, adapterVars>>
    BY <1>8 DEF AMemVerify, At
  <2>2. CASE Fail(t) /\ UNCHANGED protocolVars
    BY <2>1, <2>2, RefuseContent
  <2>3. CASE ~(Fail(t) /\ UNCHANGED protocolVars)
    <3>1. PICK s, e, pre : s = held[t] /\ e = frame[t].target[1] /\ pre = frame[t].pre
      OBVIOUS
    <3>2. /\ AMemInventoryOK(s) /\ Accept(t, s, lineage[s])
          /\ AMemDiff(pre, rows[s], e, frame[t].art)
      BY <1>8, <2>3, <3>1 DEF AMemVerify, AMemInventory
    <3>3. /\ DOMAIN rows[s] \subseteq DOMAIN pre
          /\ \A x \in DOMAIN pre \ {e} : x \in DOMAIN rows[s] /\ rows[s][x] = pre[x]
          /\ e \in DOMAIN rows[s] => pre[e].src \subseteq rows[s][e].src
      BY <3>2 DEF AMemDiff, Changed
    <3> QED
      BY <2>1, <3>1, <3>2, <3>3, InPlaceContent
  <2> QED
    BY <2>2, <2>3
<1>9. CASE AMemCertify(t)
  BY <1>9, ReadContent DEF AMemCertify
<1>10. CASE AMemRetrieve(t)
  BY <1>10, ReadContent DEF AMemRetrieve
<1> QED
  BY <1>1, <1>2, <1>3, <1>4, <1>5, <1>6, <1>7, <1>8, <1>9, <1>10 DEF AMemStep

LEMMA MemosContent ==
  ASSUME CInv, NEW t \in Tasks, profile = "memos", MemosStep(t)
  PROVE  Apart(t) /\ Kind(t)
<1>1. CASE MemosRoot(t)
  BY <1>1, RequestContent DEF MemosRoot
<1>2. CASE MemosCreate(t)
  <2>1. pc[t] = "create" /\ UNCHANGED <<held, steps, rows, entity, protocolVars>>
        /\ owner' \in States \cup {NoState}
    BY <1>2 DEF MemosCreate, At, NoRoot, storeVars, adapterVars, CInv, Typed
  <2>2. \/ NoRoot(t) /\ UNCHANGED alive
        \/ /\ Goto(t, "ingest")
           /\ \E s \in States \ alive :
                alive' = alive \cup {s} /\ frame' = [frame EXCEPT ![t].handle = s]
    BY <1>2 DEF MemosCreate, adapterVars
  <2> QED
    BY <2>1, <2>2, CreateContent
<1>3. CASE MemosIngest(t)
  <2>1. pc[t] = "ingest" /\ DOMAIN entity = States /\ DOMAIN rows = States
    BY <1>3 DEF MemosIngest, At, CInv, Typed, IInv, Shape
  <2>2. CASE MemosIngestFails(t)
    <3>1. Return(t, "idle") /\ UNCHANGED <<held, steps>> /\ Forget(frame[t].handle)
      BY <2>2 DEF MemosIngestFails, NoRoot
    <3> QED
      BY <2>1, <3>1, ForgetContent DEF Making
  <2>3. CASE ~MemosIngestFails(t)
    <3>1. PICK f \in FreshStores :
            /\ rows' = [rows EXCEPT ![frame[t].handle] = f]
            /\ Goto(t, "bind")
            /\ UNCHANGED <<held, steps, frame, entity, protocolVars, alive, owner>>
      BY <1>3, <2>3 DEF MemosIngest, adapterVars
    <3>2. /\ DOMAIN entity' = States
          /\ \A s \in States \ {frame[t].handle} : rows'[s] = rows[s] /\ entity'[s] = entity[s]
      BY <2>1, <3>1
    <3> QED
      BY <2>1, <3>1, <3>2, IngestContent
  <2> QED
    BY <2>2, <2>3
<1>4. CASE MemosBind(t)
  <2>1. Opens(t) \/ (Abandon(t) /\ UNCHANGED protocolVars)
    BY <1>4 DEF MemosBind, MemosInventory, Opens, At, storeVars
  <2>2. pc[t] = "bind" /\ UNCHANGED <<storeVars, adapterVars>>
    BY <1>4 DEF MemosBind, At
  <2> QED
    BY <2>1, <2>2, BindContent
<1>5. CASE MemosRetire(t)
  BY <1>5, ForgetContent DEF MemosRetire, TearDown, At, Making
<1>6. CASE MemosReplay(t)
  <2>1. pc[t] = "own" /\ steps[t] < MaxReplays /\ UNCHANGED <<storeVars, protocolVars, adapterVars>>
    BY <1>6 DEF MemosReplay, At
  <2>2. \/ Fail(t)
        \/ \E art \in Artifacts, e \in DOMAIN rows[held[t]], label \in {"evidence", "apply"} :
             Aim(t, held[t], art, e, rows[held[t]], label)
    BY <1>6 DEF MemosReplay, MemosInventory
  <2> QED
    BY <2>1, <2>2, ReplayContent
<1>7. CASE MemosApply(t)
  <2>1. pc[t] = "apply" /\ UNCHANGED <<entity, protocolVars, alive, owner>>
    BY <1>7 DEF MemosApply, At, adapterVars
  <2>2. PICK f \in Near(MemosIntended(frame[t].pre, frame[t].target[1], frame[t].art)) :
          /\ rows' = [rows EXCEPT ![held[t]] = f]
          /\ Fail(t) \/ (Goto(t, "verify") /\ UNCHANGED <<held, steps, frame>>)
    BY <1>7 DEF MemosApply
  <2>3. f \in Stores
    BY <2>1, AimedFacts, IntendedStore DEF OnState
  <2>4. DOMAIN entity = States /\ DOMAIN rows = States /\ \A s \in States : rows[s] \in Stores
    BY DEF CInv, Typed, IInv, Shape
  <2>5. /\ DOMAIN entity' = States /\ \A s \in States : rows'[s] \in Stores
        /\ \A s \in States \ {held[t]} : rows'[s] = rows[s] /\ entity'[s] = entity[s]
    BY <2>1, <2>2, <2>3, <2>4
  <2> QED
    BY <2>1, <2>2, <2>5, ApplyContent
<1>8. CASE MemosVerify(t)
  <2>1. pc[t] = "verify" /\ UNCHANGED <<storeVars, adapterVars>>
    BY <1>8 DEF MemosVerify, At
  <2>2. CASE Fail(t) /\ UNCHANGED protocolVars
    BY <2>1, <2>2, RefuseContent
  <2>3. CASE ~(Fail(t) /\ UNCHANGED protocolVars)
    <3>1. PICK s, e, pre : s = held[t] /\ e = frame[t].target[1] /\ pre = frame[t].pre
      OBVIOUS
    <3>2. Accept(t, s, lineage[s]) /\ MemosDiff(pre, rows[s], e, frame[t].art)
      BY <1>8, <2>3, <3>1 DEF MemosVerify, MemosInventory
    <3>3. /\ DOMAIN rows[s] \subseteq DOMAIN pre
          /\ \A x \in DOMAIN pre \ {e} : x \in DOMAIN rows[s] /\ rows[s][x] = pre[x]
          /\ e \in DOMAIN rows[s] => pre[e].src \subseteq rows[s][e].src
      BY <3>2 DEF MemosDiff, Changed, Row
    <3> QED
      BY <2>1, <3>1, <3>2, <3>3, InPlaceContent
  <2> QED
    BY <2>2, <2>3
<1>9. CASE MemosCertify(t)
  BY <1>9, ReadContent DEF MemosCertify
<1>10. CASE MemosRetrieve(t)
  BY <1>10, ReadContent DEF MemosRetrieve
<1> QED
  BY <1>1, <1>2, <1>3, <1>4, <1>5, <1>6, <1>7, <1>8, <1>9, <1>10 DEF MemosStep

LEMMA OutcomeStore ==
  ASSUME NEW f \in Stores, NEW e, NEW art \in Artifacts, art.op # "delete",
         NEW g \in GraphitiOutcomes(f, e, art)
  PROVE  g \in Stores
<1>1. Row(art.text, art.src) \in Rows
  <2>1. Stray \in Rows
    BY BackendAssumption
  <2> QED
    BY <2>1, RowAssumption
<1>2. PICK x \in Entries \ DOMAIN f :
        \/ g \in Near(With(Without(f, e), x, Row(art.text, art.src)))
        \/ g \in Near(With(f, x, Row(art.text, art.src)))
  BY DEF GraphitiOutcomes
<1>3. /\ With(Without(f, e), x, Row(art.text, art.src)) \in Stores
      /\ With(f, x, Row(art.text, art.src)) \in Stores
  BY <1>1, WithStore, WithoutStore
<1> QED
  BY <1>2, <1>3, NearStore

\* What an accepted outcome says of the store and of the lineage it leaves.
LEMMA OutcomeDiffers ==
  ASSUME NEW pre, NEW post, NEW old, DOMAIN old = DOMAIN pre, NEW e \in DOMAIN pre, NEW art, NEW id,
         \A x \in DOMAIN pre : old[x] = id <=> x = e,
         \/ GraphitiDeleteDiff(pre, post, e)
         \/ GraphitiOutcome(pre, post, e, art) # "diverged"
  PROVE  Differs(pre, post, old, GraphitiLineage(old, pre, post, e), id, e)
<1> DEFINE new == GraphitiLineage(old, pre, post, e)
<1>1. DOMAIN new = DOMAIN post
  BY DEF GraphitiLineage
<1>2. \A x \in DOMAIN post : new[x] = IF x \in DOMAIN pre THEN old[x] ELSE id
  BY DEF GraphitiLineage
<1>3. CASE GraphitiDeleteDiff(pre, post, e)
  BY <1>2, <1>3 DEF GraphitiDeleteDiff, Changed, Differs
<1>4. CASE GraphitiOutcome(pre, post, e, art) # "diverged"
  <2>1. /\ Cardinality(DOMAIN post \ DOMAIN pre) = 1
        /\ \A x \in DOMAIN post \ DOMAIN pre : post[x] = Row(art.text, pre[e].src)
        /\ DOMAIN pre \ DOMAIN post \subseteq {e} /\ Changed(pre, post) \subseteq {e}
    BY <1>4 DEF GraphitiOutcome
  <2>2. PICK x \in DOMAIN post : x \notin DOMAIN pre
    BY <2>1, FS_EmptySet
  <2>3. new[x] = id /\ pre[e].src \subseteq post[x].src
    BY <1>2, <2>1, <2>2 DEF Row
  <2>4. \A y \in DOMAIN pre \ {e} : y \in DOMAIN post /\ post[y] = pre[y] /\ new[y] = old[y]
    BY <1>2, <2>1 DEF Changed
  <2>5. \A y \in DOMAIN post : new[y] = id \/ y \in DOMAIN pre \ {e}
    BY <1>2
  <2> QED
    BY <2>3, <2>4, <2>5 DEF Differs
<1> QED
  BY <1>3, <1>4

LEMMA GraphitiVerifies ==
  ASSUME CInv, NEW t \in Tasks, profile = "graphiti", GraphitiVerify(t)
  PROVE  Apart(t) /\ Kind(t)
<1>1. PICK s, e, pre, art : s = held[t] /\ e = frame[t].target[1] /\ pre = frame[t].pre /\ art = frame[t].art
  OBVIOUS
<1>2. PICK line : line = GraphitiLineage(lineage[s], pre, rows[s], e)
  OBVIOUS
<1>3. /\ pc[t] = "verify" /\ UNCHANGED <<storeVars, adapterVars>>
  BY DEF GraphitiVerify, At
<1>4. /\ s \in States /\ art \in Artifacts /\ e \in DOMAIN pre /\ DOMAIN lineage[s] = DOMAIN pre
      /\ \A x \in DOMAIN pre : lineage[s][x] = art.target <=> x = e
  BY <1>1, <1>3, AimedFacts DEF CInv, Content, Aimed, OnState
<1>5. \A x \in DOMAIN line : line[x] \in E0
  <2>1. \A x \in DOMAIN lineage[s] : lineage[s][x] \in E0
    BY <1>4 DEF CInv, Typed
  <2> QED
    BY <1>2, <1>4, <2>1 DEF GraphitiLineage
<1>6. lineage' = lineage \/ lineage' = [lineage EXCEPT ![s] = line]
  BY <1>1, <1>2 DEF GraphitiVerify, Accept, GraphitiInventory
<1>7. DOMAIN lineage = States /\ \A r \in States : \A x \in DOMAIN lineage[r] : lineage[r][x] \in E0
  BY DEF CInv, Typed
<1>8. /\ DOMAIN lineage' = States /\ \A r \in States \ {s} : lineage'[r] = lineage[r]
      /\ \A r \in States : \A x \in DOMAIN lineage'[r] : lineage'[r][x] \in E0
  BY <1>4, <1>5, <1>6, <1>7
<1>9. CASE Fail(t) /\ UNCHANGED <<context, certified>>
  <2>1. Goto(t, "failed") /\ UNCHANGED <<held, steps, rows, entity, collection, context, certified>>
    BY <1>3, <1>9 DEF Fail, Return, storeVars
  <2>2. pc' = [pc EXCEPT ![t] = pc'[t]] /\ pc'[t] \in Labels
    BY <2>1 DEF Goto, Labels, Resting, CInv, Typed
  <2>3. held' = [held EXCEPT ![t] = held'[t]]
    BY <2>1 DEF CInv, Typed
  <2>4. steps' = [steps EXCEPT ![t] = steps'[t]] /\ steps'[t] \in 0..MaxReplays
    BY <2>1 DEF CInv, Typed
  <2>5. /\ owner' \in States \cup {NoState} /\ DOMAIN entity' = States
        /\ certified' = [r \in States |-> certified'[r]] /\ alive' = alive
        /\ \A r \in States : rows'[r] \in Stores /\ context'[r] \in Inventories \cup {Unbound}
    BY <1>3, <2>1 DEF adapterVars, CInv, Typed
  <2>6. Apart(t)
    BY <1>1, <1>8, <2>1, <2>2, <2>3, <2>4, <2>5 DEF Apart
  <2> QED
    BY <1>9, <2>6, FailEnds DEF Kind
<1>10. CASE ~(Fail(t) /\ UNCHANGED <<context, certified>>)
  <2>1. Accept(t, s, line)
    BY <1>1, <1>2, <1>10 DEF GraphitiVerify, GraphitiInventory
  <2>2. \/ GraphitiDeleteDiff(pre, rows[s], e)
        \/ GraphitiOutcome(pre, rows[s], e, art) # "diverged"
    <3>1. "diverged" \notin art.acceptable
      BY <1>4, RowAssumption
    <3>2. \/ art.op # "delete" /\ GraphitiOutcome(pre, rows[s], e, art) \in art.acceptable
          \/ (IF GraphitiDeleteDiff(pre, rows[s], e) THEN "deleted" ELSE "diverged") \in art.acceptable
      BY <1>1, <1>10 DEF GraphitiVerify, GraphitiInventory
    <3> QED
      BY <3>1, <3>2
  <2>3. Differs(pre, rows[s], lineage[s], line, art.target, e)
    BY <1>2, <1>4, <2>2, OutcomeDiffers
  <2>4. DOMAIN line = DOMAIN rows[s]
    BY <1>2, <1>4 DEF GraphitiLineage
  <2>5. Accepts(t)
    BY <1>1, <1>3, <2>1, <2>3, <2>4 DEF Accepts
  <2> QED
    BY <1>3, <1>8, <2>5, AcceptContent
<1> QED
  BY <1>9, <1>10

LEMMA GraphitiContent ==
  ASSUME CInv, NEW t \in Tasks, profile = "graphiti", GraphitiStep(t)
  PROVE  Apart(t) /\ Kind(t)
<1>0. DOMAIN entity = States /\ DOMAIN rows = States /\ \A s \in States : rows[s] \in Stores
  BY DEF CInv, Typed, IInv, Shape
<1>1. CASE GraphitiRoot(t)
  BY <1>1, RequestContent DEF GraphitiRoot
<1>2. CASE GraphitiCreate(t)
  <2>1. pc[t] = "create" /\ UNCHANGED <<held, steps, rows, entity, protocolVars>>
        /\ owner' \in States \cup {NoState}
    BY <1>2 DEF GraphitiCreate, At, NoRoot, storeVars, adapterVars, CInv, Typed
  <2>2. \/ NoRoot(t) /\ UNCHANGED alive
        \/ /\ Goto(t, "ingest")
           /\ \E s \in States \ alive :
                alive' = alive \cup {s} /\ frame' = [frame EXCEPT ![t].handle = s]
    BY <1>2 DEF GraphitiCreate, adapterVars
  <2> QED
    BY <2>1, <2>2, CreateContent
<1>3. CASE GraphitiIngest(t)
  <2>1. pc[t] = "ingest" /\ UNCHANGED <<entity, protocolVars, alive, owner>>
    BY <1>3 DEF GraphitiIngest, At, adapterVars
  <2>2. CASE NoRoot(t) /\ UNCHANGED rows
    BY <2>1, <2>2, IngestContent
  <2>3. CASE ~(NoRoot(t) /\ UNCHANGED rows)
    <3>1. PICK f \in FreshStores :
            /\ rows' = [rows EXCEPT ![frame[t].handle] = f]
            /\ Goto(t, "bind")
            /\ UNCHANGED <<held, steps, frame>>
      BY <1>3, <2>3 DEF GraphitiIngest
    <3>2. /\ DOMAIN entity' = States
          /\ \A s \in States \ {frame[t].handle} : rows'[s] = rows[s] /\ entity'[s] = entity[s]
      BY <1>0, <2>1, <3>1
    <3> QED
      BY <2>1, <3>1, <3>2, IngestContent
  <2> QED
    BY <2>2, <2>3
<1>4. CASE GraphitiBind(t)
  <2>1. Opens(t) \/ (Abandon(t) /\ UNCHANGED protocolVars)
    BY <1>4 DEF GraphitiBind, GraphitiInventory, Opens, At, storeVars
  <2>2. pc[t] = "bind" /\ UNCHANGED <<storeVars, adapterVars>>
    BY <1>4 DEF GraphitiBind, At
  <2> QED
    BY <2>1, <2>2, BindContent
<1>5. CASE GraphitiRetire(t)
  BY <1>5, ForgetContent DEF GraphitiRetire, TearDown, At, Making
<1>6. CASE GraphitiReplay(t)
  <2>1. pc[t] = "own" /\ steps[t] < MaxReplays /\ UNCHANGED <<storeVars, protocolVars, adapterVars>>
    BY <1>6 DEF GraphitiReplay, At
  <2>2. \/ Fail(t)
        \/ \E art \in Artifacts, e \in DOMAIN rows[held[t]], label \in {"evidence", "apply"} :
             Aim(t, held[t], art, e, rows[held[t]], label)
    BY <1>6 DEF GraphitiReplay, GraphitiInventory
  <2> QED
    BY <2>1, <2>2, ReplayContent
<1>7. CASE GraphitiEvidence(t)
  <2>1. pc[t] = "evidence" /\ UNCHANGED <<rows, entity, protocolVars, alive, owner>>
    BY <1>7 DEF GraphitiEvidence, At, storeVars
  <2>2. Fail(t) \/ (Goto(t, "apply") /\ UNCHANGED <<held, steps, frame>>)
    BY <1>7 DEF GraphitiEvidence
  <2> QED
    BY <1>0, <2>1, <2>2, ApplyContent
<1>8. CASE GraphitiDelete(t)
  <2>1. pc[t] = "apply" /\ UNCHANGED <<entity, protocolVars, alive, owner>>
    BY <1>8 DEF GraphitiDelete, At
  <2>2. Fail(t) \/ (Goto(t, "verify") /\ UNCHANGED <<held, steps, frame>>)
    BY <1>8 DEF GraphitiDelete
  <2>3. \/ rows' = rows
        \/ \E f \in Near(Without(rows[held[t]], frame[t].target[1])) : rows' = [rows EXCEPT ![held[t]] = f]
    BY <1>8 DEF GraphitiDelete
  <2>4. \A f \in Near(Without(rows[held[t]], frame[t].target[1])) : f \in Stores
    BY <1>0, <2>1, AimedFacts, WithoutStore, NearStore DEF OnState
  <2>5. /\ DOMAIN entity' = States /\ \A s \in States : rows'[s] \in Stores
        /\ \A s \in States \ {held[t]} : rows'[s] = rows[s] /\ entity'[s] = entity[s]
    BY <1>0, <2>1, <2>3, <2>4
  <2> QED
    BY <2>1, <2>2, <2>5, ApplyContent
<1>9. CASE GraphitiUpdate(t)
  <2>1. pc[t] = "apply" /\ UNCHANGED <<entity, protocolVars, alive, owner>> /\ frame[t].art.op # "delete"
    BY <1>9 DEF GraphitiUpdate, At, adapterVars
  <2>2. PICK f \in GraphitiOutcomes(rows[held[t]], frame[t].target[1], frame[t].art) :
          /\ rows' = [rows EXCEPT ![held[t]] = f]
          /\ Fail(t) \/ (Goto(t, "verify") /\ UNCHANGED <<held, steps, frame>>)
    BY <1>9 DEF GraphitiUpdate
  <2>3. f \in Stores
    BY <1>0, <2>1, AimedFacts, OutcomeStore DEF OnState
  <2>4. /\ DOMAIN entity' = States /\ \A s \in States : rows'[s] \in Stores
        /\ \A s \in States \ {held[t]} : rows'[s] = rows[s] /\ entity'[s] = entity[s]
    BY <1>0, <2>1, <2>2, <2>3
  <2> QED
    BY <2>1, <2>2, <2>4, ApplyContent
<1>10. CASE GraphitiVerify(t)
  BY <1>10, GraphitiVerifies
<1>11. CASE GraphitiCertify(t)
  BY <1>11, ReadContent DEF GraphitiCertify
<1>12. CASE GraphitiRetrieve(t)
  BY <1>12, ReadContent DEF GraphitiRetrieve
<1> QED
  BY <1>1, <1>2, <1>3, <1>4, <1>5, <1>6, <1>7, <1>8, <1>9, <1>10, <1>11, <1>12 DEF GraphitiStep

-----------------------------------------------------------------------------
LEMMA StepContent ==
  ASSUME CInv, NEW t \in Tasks, Step(t)
  PROVE  Effect(t) /\ Apart(t) /\ Kind(t)
<1>1. profile' = profile
  BY DEF Step
<1>2. Effect(t)
  BY <1>1, SharedEffects, Mem0Effects, AMemEffects, GraphitiEffects, MemosEffects
  DEF CInv, Step, Handler, Effect
<1>3. Apart(t) /\ Kind(t)
  BY DiscardContent, Mem0Content, AMemContent, GraphitiContent, MemosContent DEF Step, Handler
<1> QED
  BY <1>2, <1>3

LEMMA InitCInv == Init => CInv
<1> SUFFICES ASSUME NEW p \in Profiles, InitWith(p) PROVE CInv
  BY DEF Init
<1>1. IInv
  BY InitIInv DEF Init
<1>2. Typed
  <2>1. DOMAIN Unbound = {}
    BY DEF Unbound
  <2>2. 0 \in 0..MaxReplays
    BY BackendAssumption
  <2> QED
    BY <2>1, <2>2, UnboundStore DEF InitWith, Typed, Labels, Resting
<1>3. \A t \in Tasks : Content(t)
  BY DEF InitWith, NoFrame, Content, Framed, Bound, Aimed, Certain, OnState
<1> QED
  BY <1>1, <1>2, <1>3 DEF CInv

LEMMA NextCInv == CInv /\ [Next]_vars => CInv'
<1> SUFFICES ASSUME CInv, [Next]_vars PROVE CInv'
  OBVIOUS
<1>1. ASSUME NEW t \in Tasks, Step(t) PROVE CInv'
  <2>1. Effect(t) /\ Apart(t) /\ Kind(t)
    BY <1>1, StepContent
  <2>2. IInv'
    BY <2>1, EffectKeeps DEF CInv
  <2>3. Typed'
    BY <2>1, <2>2, ApartTyped
  <2>4. ASSUME NEW u \in Tasks PROVE Content(u)'
    BY <2>1, ApartOthers, KindContent
  <2> QED
    BY <2>2, <2>3, <2>4 DEF CInv
<1>2. CASE UNCHANGED vars
  <2>1. IInv'
    BY <1>2, NextIInv DEF CInv
  <2>2. UNCHANGED <<profile, pc, held, frame, steps, rows, entity, collection, context, lineage,
                    certified, alive, owner>>
    BY <1>2 DEF vars, callVars, storeVars, protocolVars, adapterVars
  <2>3. Typed'
    BY <2>2 DEF CInv, Typed
  <2>4. ASSUME NEW u \in Tasks PROVE Content(u)'
    <3>1. Content(u)
      BY DEF CInv
    <3>2. Framed(u)' /\ Aimed(u)'
      BY <2>2, <3>1 DEF Content, Framed, Aimed
    <3>3. Bound(u)'
      BY <2>2, <3>1 DEF Content, Bound, EveryEntryBound, Mem0AuxiliaryOK, AMemInventoryOK
    <3> QED
      BY <3>2, <3>3 DEF Content
  <2> QED
    BY <2>1, <2>3, <2>4 DEF CInv
<1> QED
  BY <1>1, <1>2 DEF Next

LEMMA ContentInvariant == Spec => []CInv
BY InitCInv, NextCInv, PTL DEF Spec

\* The types of the variables, of every store an operation may leave included.
THEOREM TypeCorrect == Spec => []TypeOK
<1>1. CInv => TypeOK
  <2> SUFFICES ASSUME CInv PROVE TypeOK
    OBVIOUS
  <2>1. \A t \in Tasks : frame[t].handle \in States \cup {NoState}
    BY DEF CInv, IInv, Ownership, Shape
  <2>2. \A t \in Tasks : frame[t].art \in Artifacts \cup {NoArtifact}
    BY DEF CInv, Content, Framed
  <2> QED
    BY <2>1, <2>2 DEF CInv, Typed, IInv, Shape, TypeOK, Labels
<1> QED
  BY <1>1, ContentInvariant, PTL

\* The provenance of a state's frozen inventory, at rest and in a transition.
Rooted(t) == pc[t] \in Certain \cup OnState => ProvenanceKept(held[t])

LEMMA RootedElsewhere ==
  ASSUME CInv, NEW t \in Tasks, Effect(t), Apart(t), NEW u \in Tasks, u # t, Rooted(u)
  PROVE  Rooted(u)'
<1>1. pc'[u] = pc[u] /\ held'[u] = held[u]
  BY Untouched DEF CInv
<1>2. ASSUME pc[u] \in Holding
      PROVE  certified'[held[u]] = certified[held[u]] /\ context'[held[u]] = context[held[u]]
  <2>1. held[u] \in States /\ held[u] # held[t] /\ held[u] # frame[t].handle
    BY <1>2, BackendAssumption DEF CInv, IInv, Ownership, Shape, Holding, Making, Nothing
  <2>2. context'[held[u]] = context[held[u]]
    BY <2>1 DEF Effect, Quiet, Takes, Registers, Gives, Forgets, Loses
  <2> QED
    BY <2>1, <2>2 DEF Apart
<1>3. pc[u] \in Certain \cup OnState => pc[u] \in Holding
  BY DEF Certain, OnState, Holding
<1> QED
  BY <1>1, <1>2, <1>3 DEF Rooted, ProvenanceKept

LEMMA RootedStep ==
  ASSUME CInv, NEW t \in Tasks, Effect(t), Kind(t), Rooted(t)
  PROVE  Rooted(t)'
<1>1. CASE Ends(t) \/ Clears(t) \/ Makes(t) \/ Fills(t)
  BY <1>1 DEF Ends, Clears, Makes, Fills, Rooted, Certain, OnState
<1>2. CASE Opens(t)
  <2>1. PICK s \in States : s = frame[t].handle
    BY <1>2 DEF Opens, CInv, IInv, Ownership, Shape, Nothing, Making, Holding
  <2>2. PICK inv \in Inventories : inv = frame[t].inv
    BY <1>2 DEF Opens, CInv, Content, Framed
  <2>3. PICK line : line = RootLineage(rows[s], inv)
    OBVIOUS
  <2>4. SameKeys(rows[s], inv) /\ ~Repeats(inv) /\ rows[s] \in Stores
    BY <1>2, <2>1, <2>2 DEF Opens, CInv, Typed
  <2>5. held'[t] = s /\ context'[s] = inv /\ certified'[s] = Logical(rows[s], line)
    BY <1>2, <2>1, <2>2, <2>3 DEF Opens, Register, CInv, Typed, IInv, Shape
  <2>6. \A id \in E0 : certified'[s][id] = {inv[id]}
    BY <2>3, <2>4, <2>5, RootIsInventory
  <2> QED
    BY <2>5, <2>6 DEF Rooted, ProvenanceKept
<1>3. CASE Accepts(t)
  <2>1. PICK s, id : s = held[t] /\ id = frame[t].art.target
    OBVIOUS
  <2>2. s \in States /\ id \in E0 /\ DOMAIN certified[s] = E0
    BY <1>3, <2>1, AcceptsTarget
  <2>3. PICK old \in Rows, new \in SUBSET Rows : Becomes(s, id, old, new)
    BY <1>3, <2>1, AcceptsTarget
  <2>4. held' = held /\ context' = context
    BY <1>3 DEF Accepts, Accept
  <2>5. /\ certified'[s][id] = new
        /\ \A j \in E0 \ {id} : certified'[s][j] = certified[s][j]
    BY <2>2, <2>3 DEF Becomes, CInv, Typed
  <2>6. ProvenanceKept(s)
    BY <1>3, <2>1 DEF Accepts, Rooted, OnState
  <2>7. new # {} => \E r \in new : context[s][id].src \subseteq r.src
    BY <2>2, <2>3, <2>6 DEF Becomes, ProvenanceKept
  <2> QED
    BY <2>1, <2>4, <2>5, <2>6, <2>7 DEF Rooted, ProvenanceKept
<1>4. CASE Aims(t) \/ Reads(t)
  <2>1. pc[t] \in Certain /\ held' = held /\ context' = context /\ certified' = certified
    BY <1>4 DEF Aims, Aim, Reads, Certain, protocolVars
  <2> QED
    BY <2>1 DEF Rooted, ProvenanceKept
<1>5. CASE Proceeds(t)
  <2>1. pc[t] \in OnState /\ held' = held /\ certified' = certified
    BY <1>5 DEF Proceeds, OnState
  <2>2. context' = context
    BY <1>5 DEF Proceeds, Effect, Quiet, Takes, Registers, Gives, Forgets, Loses
  <2> QED
    BY <2>1, <2>2 DEF Rooted, ProvenanceKept
<1> QED
  BY <1>1, <1>2, <1>3, <1>4, <1>5 DEF Kind

LEMMA NextRooted ==
  CInv /\ (\A t \in Tasks : Rooted(t)) /\ [Next]_vars => (\A t \in Tasks : Rooted(t))'
<1> SUFFICES ASSUME CInv, \A t \in Tasks : Rooted(t), [Next]_vars, NEW u \in Tasks
             PROVE  Rooted(u)'
  OBVIOUS
<1>1. CASE UNCHANGED vars
  BY <1>1 DEF vars, callVars, protocolVars, Rooted, ProvenanceKept
<1>2. CASE Next
  <2>1. PICK t \in Tasks : Step(t)
    BY <1>2 DEF Next
  <2>2. Effect(t) /\ Apart(t) /\ Kind(t)
    BY <2>1, StepContent
  <2> QED
    BY <2>2, RootedStep, RootedElsewhere
<1> QED
  BY <1>1, <1>2

\* Until a call on it fails, a registered state holds, through the lineage of its physical
\* entries, exactly what its certificates say, and every live ID still has the provenance of
\* its frozen entry: for every store, back end, program of transitions and interleaving.
THEOREM CertificatesTrue == Spec => []CertificateTruth
<1>1. CInv /\ (\A t \in Tasks : Rooted(t)) => CertificateTruth
  BY DEF CInv, Content, Bound, Rooted, Certain, CertificateTruth
<1>2. Init => \A t \in Tasks : Rooted(t)
  BY DEF Init, InitWith, Rooted, Certain, OnState
<1> QED
  BY <1>1, <1>2, NextRooted, ContentInvariant, PTL DEF Spec

\* The certified content of the four back ends implements the logical memory: a transition
\* changes one coverage ID and keeps its provenance, or deletes it for good.
THEOREM MemoryRefined == Spec => CertifiedMemory
<1>1. Init => Logic!Init
  BY DEF Init, InitWith, Logic!Init, Logic!Closed, Unbound
<1>2. CInv /\ [Next]_vars => [Logic!Next]_(Logic!vars)
  <2> SUFFICES ASSUME CInv, [Next]_vars PROVE [Logic!Next]_(Logic!vars)
    OBVIOUS
  <2>1. CASE Next
    <3>1. PICK t \in Tasks : Step(t)
      BY <2>1 DEF Next
    <3>2. Logic!Next \/ UNCHANGED certified
      BY <3>1, StepContent, KindLogic
    <3> QED
      BY <3>2 DEF Logic!vars
  <2>2. CASE UNCHANGED vars
    BY <2>2 DEF vars, protocolVars, Logic!vars
  <2> QED
    BY <2>1, <2>2
<1> QED
  BY <1>1, <1>2, ContentInvariant, PTL DEF Spec, CertifiedMemory, Logic!Spec

\* A memory that is open has every ID.
Whole == /\ DOMAIN certified = States
         /\ \A s \in States : certified[s] = Logic!Closed \/ DOMAIN certified[s] = E0

LEMMA MemoryWhole == Logic!Spec => []Whole
<1>1. Logic!Init => Whole
  BY DEF Logic!Init, Whole
<1>2. Whole /\ [Logic!Next]_(Logic!vars) => Whole'
  <2> SUFFICES ASSUME Whole, Logic!Next PROVE Whole'
    BY DEF Whole, Logic!vars
  <2>1. ASSUME NEW r \in States, Logic!Open(r) PROVE Whole'
    BY <2>1 DEF Whole, Logic!Open
  <2>2. ASSUME NEW r \in States, Logic!Close(r) PROVE Whole'
    BY <2>2 DEF Whole, Logic!Close
  <2>3. ASSUME NEW r \in States, NEW j \in E0, Logic!Change(r, j) \/ Logic!Delete(r, j) PROVE Whole'
    BY <2>3 DEF Whole, Logic!Change, Logic!Delete, Logic!Target
  <2> QED
    BY <2>1, <2>2, <2>3 DEF Logic!Next
<1> QED
  BY <1>1, <1>2, PTL DEF Logic!Spec

\* So a deleted coverage ID of a registered state stays deleted until the state is closed,
\* whatever else is replayed on it and whatever its store brings back.
THEOREM DeletionLasts == Spec => Logic!DeletedStays
<1>1. ASSUME Whole, [Logic!Next]_(Logic!vars), NEW s \in States, NEW id \in E0,
             certified[s] # Logic!Closed, certified[s][id] = {}
      PROVE  certified'[s] = Logic!Closed \/ certified'[s][id] = {}
  <2>1. CASE UNCHANGED certified
    BY <1>1, <2>1
  <2>2. ASSUME NEW r \in States, Logic!Open(r) PROVE certified'[s] = certified[s]
    BY <1>1, <2>2 DEF Logic!Open, Whole
  <2>3. ASSUME NEW r \in States, Logic!Close(r)
        PROVE  certified'[s] = Logic!Closed \/ certified'[s] = certified[s]
    BY <1>1, <2>3 DEF Logic!Close, Whole
  <2>4. ASSUME NEW r \in States, NEW j \in E0, Logic!Change(r, j) \/ Logic!Delete(r, j)
        PROVE  certified'[s][id] = certified[s][id]
    <3>1. /\ r # s \/ j # id
          /\ \E new \in SUBSET Rows : certified' = [certified EXCEPT ![r][j] = new]
      BY <1>1, <2>4 DEF Logic!Change, Logic!Delete, Logic!Target
    <3> QED
      BY <1>1, <3>1 DEF Whole
  <2> QED
    BY <1>1, <2>1, <2>2, <2>3, <2>4 DEF Logic!Next, Logic!vars
<1>2. Whole /\ [Logic!Next]_(Logic!vars) =>
        [\A s \in States, id \in E0 :
           certified[s] # Logic!Closed /\ certified[s][id] = {}
             => certified'[s] = Logic!Closed \/ certified'[s][id] = {}]_(Logic!vars)
  BY <1>1
<1> QED
  BY <1>2, MemoryRefined, MemoryWhole, PTL DEF CertifiedMemory, Logic!Spec, Logic!DeletedStays

-----------------------------------------------------------------------------
(* Both sides of the protocol.                                               *)

\* The composed protocol is the back ends' own, with a caller that stops earlier.
LEMMA ProtocolSteps == [ProtocolNext]_allVars => [Next]_vars
<1> SUFFICES ASSUME [ProtocolNext]_allVars PROVE [Next]_vars
  OBVIOUS
<1>1. CASE UNCHANGED allVars
  BY <1>1 DEF allVars
<1>2. CASE ProtocolNext
  <2>1. PICK t \in Tasks : (Call(t) \/ GiveUp(t)) /\ UNCHANGED profile
    BY <1>2 DEF ProtocolNext
  <2>2. Step(t)
    BY <2>1 DEF Call, GiveUp, Step
  <2> QED
    BY <2>2 DEF Next
<1> QED
  BY <1>1, <1>2

\* The caller's bookkeeping only restricts what the four back ends do: whatever holds of them
\* for every caller holds of the composition.
THEOREM ProtocolImplements == ProtocolSpec => Spec
BY ProtocolSteps, PTL DEF ProtocolSpec, ProtocolInit, Spec

\* The re-binding a caller has while its state is at rest, and while it is in a transition.
Derived(t) ==
  t \notin refused =>
    /\ pc[t] \in Certain => binding[t] = BindingOf(held[t], rows[held[t]], lineage[held[t]])
    /\ pc[t] \in OnState => binding[t] = BindingOf(held[t], frame[t].pre, lineage[held[t]])

PInv == DOMAIN binding = Tasks /\ \A t \in Tasks : Derived(t)

\* The steps of one task leave the state another holds alone.
LEMMA HeldElsewhere ==
  ASSUME CInv, NEW t \in Tasks, Effect(t), Apart(t), NEW u \in Tasks, u # t
  PROVE  /\ pc'[u] = pc[u] /\ held'[u] = held[u] /\ frame'[u] = frame[u]
         /\ pc[u] \in Holding => rows'[held[u]] = rows[held[u]] /\ lineage'[held[u]] = lineage[held[u]]
<1>1. pc'[u] = pc[u] /\ held'[u] = held[u] /\ frame'[u] = frame[u]
  BY Untouched DEF CInv
<1>2. ASSUME pc[u] \in Holding
      PROVE  rows'[held[u]] = rows[held[u]] /\ lineage'[held[u]] = lineage[held[u]]
  <2>1. held[u] \in States /\ held[u] # held[t] /\ held[u] # frame[t].handle
    BY <1>2, BackendAssumption DEF CInv, IInv, Ownership, Shape, Holding, Making, Nothing
  <2> QED
    BY <2>1 DEF Apart
<1> QED
  BY <1>1, <1>2

LEMMA DerivedElsewhere ==
  ASSUME CInv, NEW t \in Tasks, Effect(t), Apart(t), NEW u \in Tasks, u # t, Derived(u),
         binding'[u] = binding[u], u \in refused' <=> u \in refused
  PROVE  Derived(u)'
<1>1. pc[u] \in Certain \cup OnState => pc[u] \in Holding
  BY DEF Certain, OnState, Holding
<1>2. /\ pc'[u] = pc[u] /\ held'[u] = held[u] /\ frame'[u] = frame[u]
      /\ pc[u] \in Holding => rows'[held[u]] = rows[held[u]] /\ lineage'[held[u]] = lineage[held[u]]
  BY HeldElsewhere
<1> QED
  BY <1>1, <1>2 DEF Derived

-----------------------------------------------------------------------------
(* What an accepted transition leaves of a store: everything but the target *)
(* and the successors its certificate names.                                *)

Shaped(kind, succ, e) ==
  \/ kind = "deleted" /\ succ = {}
  \/ kind = "same_id" /\ succ = {e}
  \/ kind = "replaced" /\ \E y \in Entries : succ = {y}
  \/ kind = "split" /\ \E y \in Entries : y # e /\ succ = {e, y}

Leaves(pre, post, old, line, e, id, succ) ==
  /\ DOMAIN post = (DOMAIN pre \ {e}) \cup succ
  /\ succ \cap (DOMAIN pre \ {e}) = {}
  /\ \A x \in DOMAIN pre \ {e} : line[x] = old[x]
  /\ \A x \in succ : line[x] = id

\* The handlers that keep physical IDs.
LEMMA InPlaceLeaves ==
  ASSUME CInv, NEW t \in Tasks, pc[t] = "verify", profile # "graphiti",
         NEW s, s = held[t], NEW pre, pre = frame[t].pre, NEW e, e = frame[t].target[1],
         NEW post, post = rows[s], NEW line, line = lineage[s],
         frame[t].art.op = "delete" => DOMAIN pre \ DOMAIN post = {e} /\ DOMAIN post \subseteq DOMAIN pre,
         frame[t].art.op # "delete" => DOMAIN post = DOMAIN pre
  PROVE  /\ Shaped(Outcome(t), Successors(t), e)
         /\ Leaves(pre, post, lineage[s], line, e, frame[t].art.target, Successors(t))
<1>1. e \in DOMAIN pre /\ lineage[s][e] = frame[t].art.target
  BY DEF CInv, Content, Aimed, OnState
<1>2. CASE frame[t].art.op = "delete"
  <2>1. Outcome(t) = "deleted" /\ Successors(t) = {}
    BY <1>2 DEF Outcome, Successors
  <2> QED
    BY <1>1, <1>2, <2>1 DEF Shaped, Leaves
<1>3. CASE frame[t].art.op # "delete"
  <2>1. Outcome(t) = "same_id" /\ Successors(t) = {e}
    BY <1>3 DEF Outcome, Successors
  <2> QED
    BY <1>1, <1>3, <2>1 DEF Shaped, Leaves
<1> QED
  BY <1>2, <1>3

LEMMA GraphitiLeaves ==
  ASSUME CInv, NEW t \in Tasks, pc[t] = "verify", profile = "graphiti",
         NEW s, s = held[t], NEW pre, pre = frame[t].pre, NEW e, e = frame[t].target[1],
         NEW post, post = rows[s], NEW line, line = GraphitiLineage(lineage[s], pre, post, e),
         frame[t].art.op = "delete" => GraphitiDeleteDiff(pre, post, e),
         frame[t].art.op # "delete" => GraphitiOutcome(pre, post, e, frame[t].art) # "diverged"
  PROVE  /\ Shaped(Outcome(t), Successors(t), e)
         /\ Leaves(pre, post, lineage[s], line, e, frame[t].art.target, Successors(t))
<1>1. /\ e \in DOMAIN pre /\ lineage[s][e] = frame[t].art.target /\ DOMAIN lineage[s] = DOMAIN pre
      /\ s \in States /\ post \in Stores
  BY AimedFacts DEF CInv, Content, Aimed, OnState, Typed
<1>2. \A x \in DOMAIN post : line[x] = IF x \in DOMAIN pre THEN lineage[s][x] ELSE frame[t].art.target
  BY <1>1 DEF GraphitiLineage
<1>3. CASE frame[t].art.op = "delete"
  <2>1. Outcome(t) = "deleted" /\ Successors(t) = {}
    BY <1>3 DEF Outcome, Successors
  <2>2. DOMAIN post = DOMAIN pre \ {e}
    BY <1>3 DEF GraphitiDeleteDiff
  <2> QED
    BY <1>2, <2>1, <2>2 DEF Shaped, Leaves
<1>4. CASE frame[t].art.op # "delete"
  <2>1. Outcome(t) = GraphitiOutcome(pre, post, e, frame[t].art)
    BY <1>4 DEF Outcome
  <2>2. /\ Cardinality(DOMAIN post \ DOMAIN pre) = 1
        /\ \/ Outcome(t) = "replaced" /\ DOMAIN pre \ DOMAIN post = {e}
           \/ Outcome(t) = "split" /\ DOMAIN pre \ DOMAIN post = {}
    BY <1>4, <2>1 DEF GraphitiOutcome
  <2>3. DOMAIN post \subseteq Entries /\ IsFiniteSet(DOMAIN post \ DOMAIN pre)
    <3>1. DOMAIN post \subseteq Entries
      BY <1>1, StoreType
    <3>2. DOMAIN post \ DOMAIN pre \subseteq Entries
      BY <3>1
    <3> QED
      BY <3>1, <3>2, BackendAssumption, FS_Subset
  <2>4. PICK y : DOMAIN post \ DOMAIN pre = {y}
    <3>1. PICK added : added = DOMAIN post \ DOMAIN pre
      OBVIOUS
    <3> QED
      BY <2>2, <2>3, <3>1, FS_Singleton
  <2>5. y \in Entries /\ y # e /\ y \in DOMAIN post
    BY <1>1, <2>3, <2>4
  <2>6. CASE Outcome(t) = "replaced" /\ DOMAIN pre \ DOMAIN post = {e}
    <3>1. Successors(t) = {y}
      BY <2>4, <2>6 DEF Successors
    <3> QED
      BY <1>2, <2>4, <2>5, <2>6, <3>1 DEF Shaped, Leaves
  <2>7. CASE Outcome(t) = "split" /\ DOMAIN pre \ DOMAIN post = {}
    <3>1. Successors(t) = {e, y}
      BY <2>4, <2>7 DEF Successors
    <3> QED
      BY <1>1, <1>2, <2>4, <2>5, <2>7, <3>1 DEF Shaped, Leaves
  <2> QED
    BY <2>2, <2>6, <2>7
<1> QED
  BY <1>3, <1>4

\* Whatever the back end, a transition that is answered with a certificate.
LEMMA AnswerLeaves ==
  ASSUME CInv, NEW t \in Tasks, Handler(t), pc[t] = "verify", pc'[t] = "own",
         NEW s, s = held[t], NEW pre, pre = frame[t].pre, NEW e, e = frame[t].target[1]
  PROVE  /\ rows' = rows /\ held' = held
         /\ Shaped(Outcome(t), Successors(t), e)
         /\ Leaves(pre, rows[s], lineage[s], lineage'[s], e, frame[t].art.target, Successors(t))
<1>1. s \in States /\ frame[t].art \in Artifacts /\ DOMAIN lineage = States
  BY AimedFacts DEF OnState, CInv, Typed
<1>2. ~Fail(t)
  <2>1. Fail(t) => pc'[t] = "failed"
    BY DEF Fail, Return, Goto, CInv, IInv, Shape
  <2> QED
    BY <2>1
<1>3. ASSUME NEW line, Accept(t, s, line) PROVE lineage'[s] = line /\ held' = held
  BY <1>1, <1>3 DEF Accept
<1>4. CASE profile = "mem0" /\ Mem0Step(t)
  <2>1. Mem0Verify(t)
    BY <1>4 DEF Mem0Step, Mem0Root, RootRequest, Mem0Create, Mem0Ingest, Mem0Bind, Mem0Retire, TearDown,
       Mem0Replay, Mem0Apply, Mem0Certify, Mem0Retrieve, Read, At
  <2>2. rows' = rows /\ Accept(t, s, lineage[s])
    BY <1>2, <2>1 DEF Mem0Verify, storeVars
  <2>3. /\ frame[t].art.op = "delete" => DOMAIN pre \ DOMAIN rows[s] = {e} /\ DOMAIN rows[s] \subseteq DOMAIN pre
        /\ frame[t].art.op # "delete" => DOMAIN rows[s] = DOMAIN pre
    BY <1>2, <2>1 DEF Mem0Verify, Mem0Inventory, Mem0DeleteDiff, Mem0UpdateDiff
  <2> QED
    BY <1>3, <1>4, <2>2, <2>3, InPlaceLeaves
<1>5. CASE profile = "a-mem" /\ AMemStep(t)
  <2>1. AMemVerify(t)
    BY <1>5 DEF AMemStep, AMemRoot, RootRequest, AMemCreate, AMemIngest, AMemBind, AMemRetire, TearDown,
       AMemReplay, AMemApply, AMemCertify, AMemRetrieve, Read, At
  <2>2. rows' = rows /\ Accept(t, s, lineage[s])
    BY <1>2, <2>1 DEF AMemVerify, storeVars
  <2>3. /\ frame[t].art.op = "delete" => DOMAIN pre \ DOMAIN rows[s] = {e} /\ DOMAIN rows[s] \subseteq DOMAIN pre
        /\ frame[t].art.op # "delete" => DOMAIN rows[s] = DOMAIN pre
    BY <1>2, <2>1 DEF AMemVerify, AMemInventory, AMemDiff
  <2> QED
    BY <1>3, <1>5, <2>2, <2>3, InPlaceLeaves
<1>6. CASE profile = "memos" /\ MemosStep(t)
  <2>1. MemosVerify(t)
    BY <1>6 DEF MemosStep, MemosRoot, RootRequest, MemosCreate, MemosIngest, MemosBind, MemosRetire, TearDown,
       MemosReplay, MemosApply, MemosCertify, MemosRetrieve, Read, At
  <2>2. rows' = rows /\ Accept(t, s, lineage[s])
    BY <1>2, <2>1 DEF MemosVerify, storeVars
  <2>3. /\ frame[t].art.op = "delete" => DOMAIN pre \ DOMAIN rows[s] = {e} /\ DOMAIN rows[s] \subseteq DOMAIN pre
        /\ frame[t].art.op # "delete" => DOMAIN rows[s] = DOMAIN pre
    BY <1>2, <2>1 DEF MemosVerify, MemosInventory, MemosDiff
  <2> QED
    BY <1>3, <1>6, <2>2, <2>3, InPlaceLeaves
<1>7. CASE profile = "graphiti" /\ GraphitiStep(t)
  <2>1. GraphitiVerify(t)
    BY <1>7 DEF GraphitiStep, GraphitiRoot, RootRequest, GraphitiCreate, GraphitiIngest, GraphitiBind,
       GraphitiRetire, TearDown, GraphitiReplay, GraphitiEvidence, GraphitiDelete, GraphitiUpdate,
       GraphitiCertify, GraphitiRetrieve, Read, At
  <2>2. PICK line : line = GraphitiLineage(lineage[s], pre, rows[s], e)
    OBVIOUS
  <2>3. rows' = rows /\ Accept(t, s, line)
    BY <1>2, <2>1, <2>2 DEF GraphitiVerify, GraphitiInventory, storeVars
  <2>4. "diverged" \notin frame[t].art.acceptable
    BY <1>1, RowAssumption
  <2>5. /\ frame[t].art.op = "delete" => GraphitiDeleteDiff(pre, rows[s], e)
        /\ frame[t].art.op # "delete" => GraphitiOutcome(pre, rows[s], e, frame[t].art) # "diverged"
    BY <1>2, <2>1, <2>4 DEF GraphitiVerify, GraphitiInventory
  <2>6. lineage'[s] = line /\ held' = held
    BY <1>3, <2>3
  <2> QED
    BY <1>7, <2>2, <2>3, <2>5, <2>6, GraphitiLeaves
<1> QED
  BY <1>4, <1>5, <1>6, <1>7 DEF Handler

-----------------------------------------------------------------------------
(* The certificate of such a transition, and what it makes of a re-binding.  *)

\* The certificate names the target and its successors, each under the target's lineage.
LEMMA CertificateIs ==
  ASSUME NEW t \in Tasks, NEW s, s = held[t], NEW e, e = frame[t].target[1],
         NEW id, id = frame[t].art.target, NEW succ, succ = Successors(t)
  PROVE  /\ DOMAIN Affected(t).pred = {Entry(s, e)} /\ Affected(t).pred[Entry(s, e)] = {id}
         /\ DOMAIN Affected(t).succ = RefsOf(s, succ)
         /\ \A r \in RefsOf(s, succ) : Affected(t).succ[r] = {id}
         /\ Contract!Preds(Certificate(t)) = {Entry(s, e)}
         /\ Contract!Succs(Certificate(t)) = RefsOf(s, succ)
         /\ \A r \in RefsOf(s, succ) : Contract!SuccToken(Certificate(t), r) = {id}
<1>1. PICK g : g = Affected(t)
  OBVIOUS
<1>2. /\ g.pred = [r \in RefsOf(s, {e}) |-> {id}]
      /\ g.succ = [r \in RefsOf(s, succ) |-> {id}]
  BY <1>1 DEF Affected
<1>3. Certificate(t).groups = {g}
  BY <1>1 DEF Certificate
<1>4. Contract!Preds(Certificate(t)) = DOMAIN g.pred /\ Contract!Succs(Certificate(t)) = DOMAIN g.succ
  BY <1>3 DEF Contract!Preds, Contract!Succs
<1>5. RefsOf(s, {e}) = {Entry(s, e)}
  BY DEF RefsOf
<1>6. ASSUME NEW r \in RefsOf(s, succ) PROVE Contract!SuccToken(Certificate(t), r) = {id}
  <2>1. Contract!SuccToken(Certificate(t), r) = (CHOOSE h \in {g} : r \in DOMAIN h.succ).succ[r]
    BY <1>3 DEF Contract!SuccToken
  <2>2. (CHOOSE h \in {g} : r \in DOMAIN h.succ) = g
    BY <1>2
  <2> QED
    BY <1>2, <2>1, <2>2
<1> QED
  BY <1>1, <1>2, <1>4, <1>5, <1>6

LEMMA EntryInjective ==
  ASSUME NEW s, NEW x, NEW y, Entry(s, x) = Entry(s, y) PROVE x = y
BY DEF Entry

\* Certificate c takes the re-binding f of state s to the re-binding g.
Rebinds(c, s, f, g) ==
  Contract!Applies(f, c, s, s) /\ Contract!Applied(f, c) = g /\ Contract!BoundTo(g, s)

\* It applies to the re-binding the transition started from, and gives the one of the store
\* it ended in.
LEMMA CertificateApplies ==
  ASSUME NEW t \in Tasks, NEW s \in States, s = held[t], NEW e \in Entries, e = frame[t].target[1],
         NEW id \in E0, id = frame[t].art.target, NEW succ \in SUBSET Entries, succ = Successors(t),
         NEW pre, e \in DOMAIN pre, NEW post, NEW old, old[e] = id, NEW line,
         Leaves(pre, post, old, line, e, id, succ)
  PROVE  Rebinds(Certificate(t), s, BindingOf(s, pre, old), BindingOf(s, post, line))
<1>0. PICK f : f = BindingOf(s, pre, old)
  OBVIOUS
<1>1. PICK c : c = Certificate(t)
  OBVIOUS
<1>2. PICK g : g = Affected(t)
  OBVIOUS
<1>3. /\ c.groups = {g} /\ c.status = "certified" /\ c.scope = "seed"
  BY <1>1, <1>2 DEF Certificate
<1>4. /\ DOMAIN g.pred = {Entry(s, e)} /\ g.pred[Entry(s, e)] = {id} /\ DOMAIN g.succ = RefsOf(s, succ)
      /\ Contract!Preds(c) = {Entry(s, e)}
      /\ Contract!Succs(c) = RefsOf(s, succ)
      /\ \A r \in RefsOf(s, succ) : Contract!SuccToken(c, r) = {id}
  BY <1>1, <1>2, CertificateIs
<1>5. DOMAIN f = RefsOf(s, DOMAIN pre) /\ \A x \in DOMAIN pre : f[Entry(s, x)] = {old[x]}
  BY <1>0 DEF BindingOf, RefsOf, Entry
<1>6. Contract!Survivors(f, c) = RefsOf(s, DOMAIN pre \ {e})
  BY <1>4, <1>5, EntryInjective DEF Contract!Survivors, RefsOf
<1>7. \A r \in RefsOf(s, succ) : r.state = s /\ r \notin RefsOf(s, DOMAIN pre \ {e})
  BY EntryInjective DEF RefsOf, Entry, Leaves
<1>8. Contract!Applies(f, c, s, s)
  <2>1. Contract!BoundTo(f, s)
    BY <1>5 DEF Contract!BoundTo, RefsOf, Entry
  <2>2. \A p \in DOMAIN g.pred : p.state = s /\ p \in DOMAIN f /\ f[p] = g.pred[p]
    <3>1. Entry(s, e).state = s
      BY DEF Entry
    <3>2. Entry(s, e) \in DOMAIN f
      BY <1>5 DEF RefsOf
    <3> QED
      BY <1>4, <1>5, <3>1, <3>2
  <2>3. \A r \in DOMAIN g.succ : r.state = s /\ r \notin Contract!Survivors(f, c)
    BY <1>4, <1>6, <1>7
  <2> QED
    BY <1>3, <2>1, <2>2, <2>3 DEF Contract!Applies
<1>9. Contract!Applied(f, c) = BindingOf(s, post, line)
  <2>1. RefsOf(s, DOMAIN pre \ {e}) \cup RefsOf(s, succ) = RefsOf(s, DOMAIN post)
    BY DEF RefsOf, Leaves
  <2>2. Contract!Applied(f, c) =
          [r \in RefsOf(s, DOMAIN post) |-> IF r \in RefsOf(s, succ) THEN {id} ELSE f[r]]
    <3>1. Contract!Applied(f, c) =
            [r \in RefsOf(s, DOMAIN post) |-> IF r \in RefsOf(s, succ) THEN Contract!SuccToken(c, r) ELSE f[r]]
      BY <1>4, <1>6, <2>1 DEF Contract!Applied
    <3> QED
      BY <1>4, <3>1
  <2>3. ASSUME NEW r \in RefsOf(s, DOMAIN post)
        PROVE  (IF r \in RefsOf(s, succ) THEN {id} ELSE f[r]) = {line[r.entry]}
    <3>1. PICK x \in DOMAIN post : r = Entry(s, x)
      BY DEF RefsOf
    <3>2. r.entry = x /\ (r \in RefsOf(s, succ) <=> x \in succ)
      BY <3>1, EntryInjective DEF RefsOf, Entry
    <3>3. CASE x \in succ
      BY <3>2, <3>3 DEF Leaves
    <3>4. CASE x \notin succ
      <4>1. x \in DOMAIN pre \ {e}
        BY <3>4 DEF Leaves
      <4> QED
        BY <1>5, <3>1, <3>2, <3>4, <4>1 DEF Leaves
    <3> QED
      BY <3>3, <3>4
  <2> QED
    BY <2>2, <2>3 DEF BindingOf
<1>10. Contract!BoundTo(BindingOf(s, post, line), s)
  BY DEF Contract!BoundTo, BindingOf, RefsOf, Entry
<1> QED
  BY <1>0, <1>1, <1>8, <1>9, <1>10 DEF Rebinds

\* The contract's instance of FiniteSets is the one used here.
LEMMA SameCardinality == \A S : Contract!Cardinality(S) = Cardinality(S)
BY DEF Contract!Cardinality, Cardinality

\* What its constructor asks of it.
LEMMA CertificateWellFormed ==
  ASSUME NEW t \in Tasks, NEW s \in States, s = held[t], NEW e \in Entries, e = frame[t].target[1],
         NEW id \in E0, id = frame[t].art.target, NEW succ \in SUBSET Entries, succ = Successors(t),
         Shaped(Outcome(t), succ, e)
  PROVE  Contract!WellFormedCertificate(Certificate(t))
<1>1. PICK c, g : c = Certificate(t) /\ g = Affected(t)
  OBVIOUS
<1>2. /\ c.groups = {g} /\ c.target = g /\ c.status = "certified" /\ c.post = TRUE
      /\ c.outcome = Outcome(t)
  BY <1>1 DEF Certificate
<1>3. /\ g.pred = [r \in RefsOf(s, {e}) |-> {id}] /\ g.succ = [r \in RefsOf(s, succ) |-> {id}]
      /\ g.upred = {} /\ g.usucc = {} /\ g.kind = Contract!OutcomeKind[Outcome(t)]
  BY <1>1 DEF Affected
<1>4. PICK p : p = Entry(s, e) /\ p.entry = e
  <2>1. Entry(s, e).entry = e
    BY DEF Entry
  <2> QED
    BY <2>1
<1>5. DOMAIN g.pred = {p} /\ g.pred[p] = {id}
  BY <1>3, <1>4 DEF RefsOf
<1>6. DOMAIN g.succ = RefsOf(s, succ) /\ \A r \in RefsOf(s, succ) : g.succ[r] = {id}
  BY <1>3
<1>7. {id} \in Contract!Token /\ Cardinality({id}) = 1
  BY FS_Singleton DEF Contract!Token
<1>8. \A ids \in SUBSET Entries : RefsOf(s, ids) \subseteq Contract!Ref
  BY DEF RefsOf, Entry, Contract!Ref
<1>9. Contract!IsBinding(g.pred)
  BY <1>3, <1>7, <1>8 DEF Contract!IsBinding
<1>10. Contract!IsBinding(g.succ)
  BY <1>3, <1>7, <1>8 DEF Contract!IsBinding
<1>11. p \in Contract!Ref
  BY <1>4, <1>8 DEF RefsOf
<1>12. /\ Outcome(t) \in Contract!Outcomes
       /\ Outcome(t) = "deleted" => g.kind = "deleted"
       /\ Outcome(t) = "same_id" => g.kind = "same_id_changed"
       /\ Outcome(t) = "replaced" => g.kind = "replaced"
       /\ Outcome(t) = "split" => g.kind = "split"
  BY <1>3 DEF Shaped, Contract!Outcomes, Contract!OutcomeKind
<1>13. Contract!OneToOne(g) \/ Contract!Deletion(g) \/ Contract!Split(g)
  <2>1. CASE Outcome(t) = "deleted" /\ succ = {}
    <3>1. DOMAIN g.succ = {}
      BY <1>6, <2>1 DEF RefsOf
    <3> QED
      BY <1>5, <1>11, <1>12, <2>1, <3>1 DEF Contract!Deletion
  <2>2. CASE Outcome(t) = "same_id" /\ succ = {e}
    <3>1. DOMAIN g.succ = {p} /\ g.succ[p] = {id}
      BY <1>4, <1>6, <2>2 DEF RefsOf
    <3> QED
      BY <1>5, <1>11, <1>12, <2>2, <3>1 DEF Contract!OneToOne, Contract!OneToOneKinds
  <2>3. CASE Outcome(t) = "replaced" /\ \E y \in Entries : succ = {y}
    <3>1. PICK y \in Entries : succ = {y}
      BY <2>3
    <3>2. PICK q \in Contract!Ref : q = Entry(s, y)
      BY DEF Entry, Contract!Ref
    <3>3. DOMAIN g.succ = {q} /\ g.succ[q] = {id}
      BY <1>6, <3>1, <3>2 DEF RefsOf
    <3> QED
      BY <1>5, <1>11, <1>12, <2>3, <3>3 DEF Contract!OneToOne, Contract!OneToOneKinds
  <2>4. CASE Outcome(t) = "split" /\ \E y \in Entries : y # e /\ succ = {e, y}
    <3>1. PICK y \in Entries : y # e /\ succ = {e, y}
      BY <2>4
    <3>2. PICK q : q = Entry(s, y) /\ q # p
      BY <1>4, <3>1, EntryInjective
    <3>3. DOMAIN g.succ = {p, q}
      BY <1>4, <1>6, <3>1, <3>2 DEF RefsOf
    <3>4. Cardinality({p, q}) = 2
      <4>1. IsFiniteSet({p}) /\ Cardinality({p}) = 1 /\ q \notin {p} /\ {p, q} = {p} \cup {q}
        BY <3>2, FS_Singleton
      <4>2. Cardinality({p} \cup {q}) = Cardinality({p}) + 1
        BY <4>1, FS_AddElement
      <4> QED
        BY <4>1, <4>2
    <3>5. /\ g.kind = "split" /\ Contract!Cardinality(DOMAIN g.succ) >= 2
          /\ Contract!Cardinality(g.pred[p]) = 1
          /\ \A r \in DOMAIN g.succ : g.succ[r] = g.pred[p]
      <4>1. g.kind = "split" /\ \A r \in DOMAIN g.succ : g.succ[r] = g.pred[p]
        BY <1>5, <1>6, <1>12, <2>4
      <4>2. Contract!Cardinality(DOMAIN g.succ) = 2
        BY <3>3, <3>4, SameCardinality
      <4>3. Contract!Cardinality(g.pred[p]) = 1
        BY <1>5, <1>7, SameCardinality
      <4> QED
        BY <4>1, <4>2, <4>3
    <3>6. \E o \in Contract!Ref : /\ DOMAIN g.pred = {o} /\ Contract!Cardinality(g.pred[o]) = 1
                                 /\ \A r \in DOMAIN g.succ : g.succ[r] = g.pred[o]
      BY <1>5, <1>11, <3>5
    <3> QED
      BY <3>5, <3>6 DEF Contract!Split
  <2> QED
    BY <2>1, <2>2, <2>3, <2>4 DEF Shaped
<1>14. Contract!WellFormedGroup(g)
  BY <1>3, <1>9, <1>10, <1>13 DEF Contract!WellFormedGroup
<1>15. (Contract!Preds(c) \cup Contract!Succs(c)) \cap UNION {h.upred \cup h.usucc : h \in c.groups} = {}
  BY <1>2, <1>3
<1>16. g.kind \in Contract!CertifiableKinds /\ g.kind = Contract!OutcomeKind[c.outcome]
  BY <1>2, <1>3, <1>12 DEF Shaped, Contract!CertifiableKinds, Contract!OneToOneKinds
<1> QED
  BY <1>1, <1>2, <1>12, <1>14, <1>15, <1>16 DEF Contract!WellFormedCertificate

\* Nothing but the artifact's acceptable outcomes decides what the caller says of it.
LEMMA CertificateVerdict ==
  ASSUME NEW t \in Tasks, NEW e, Shaped(Outcome(t), Successors(t), e),
         Outcome(t) \in frame[t].art.acceptable
  PROVE  Contract!TransitionVerdict(Certificate(t), Demand(frame[t].art)) = "accepted"
<1>1. PICK c, d, id : c = Certificate(t) /\ d = Demand(frame[t].art) /\ id = frame[t].art.target
  OBVIOUS
<1>2. /\ c.status = "certified" /\ c.artifact = d.id /\ c.scope = "seed" /\ c.post = TRUE
      /\ c.outcome = Outcome(t) /\ c.target = Affected(t)
  BY <1>1 DEF Certificate, Demand
<1>3. d.target = {id} /\ d.acceptable = frame[t].art.acceptable
  BY <1>1 DEF Demand
<1>4. Outcome(t) # "unchanged"
  BY DEF Shaped
<1>5. id \in Contract!InheritedIds(c.target)
  <2>1. PICK p, s : s = held[t] /\ p = Entry(s, frame[t].target[1])
    OBVIOUS
  <2>2. DOMAIN Affected(t).pred = {p} /\ Affected(t).pred[p] = {id}
    BY <1>1, <2>1, CertificateIs
  <2> QED
    BY <1>2, <2>2 DEF Contract!InheritedIds, Contract!Ids
<1>6. d.target \subseteq Contract!InheritedIds(c.target)
  BY <1>3, <1>5
<1> QED
  BY <1>1, <1>2, <1>3, <1>4, <1>6 DEF Contract!TransitionVerdict

\* The root re-binding binds every ID, one to one.
LEMMA RootWellFormed ==
  ASSUME NEW s \in States, NEW f \in Stores, NEW inv \in Inventories, SameKeys(f, inv), ~Repeats(inv),
         NEW live, live = BindingOf(s, f, RootLineage(f, inv))
  PROVE  Contract!WellFormedRebinding([live |-> live, deleted |-> Contract!DeletedIds(live), kind |-> "root"])
<1>1. PICK line : line = RootLineage(f, inv)
  OBVIOUS
<1>2. /\ \A e \in DOMAIN f : line[e] \in E0
      /\ \A id \in E0 : Logical(f, line)[id] = {inv[id]}
      /\ \A x, y \in DOMAIN f : line[x] = line[y] => x = y
  BY <1>1, RootIsInventory
<1>3. DOMAIN f \subseteq Entries
  BY StoreType
<1>4. /\ live = [r \in RefsOf(s, DOMAIN f) |-> {line[r.entry]}]
      /\ \A r \in RefsOf(s, DOMAIN f) : r = Entry(s, r.entry) /\ r.entry \in DOMAIN f
      /\ RefsOf(s, DOMAIN f) \subseteq Contract!Ref
  BY <1>1, <1>3 DEF BindingOf, RefsOf, Entry, Contract!Ref
<1>5. Contract!IsBinding(live)
  BY <1>2, <1>4 DEF Contract!IsBinding, Contract!Token
<1>6. Contract!DeletedIds(live) = {}
  <2> SUFFICES ASSUME NEW id \in E0 PROVE id \in Contract!Ids(live)
    BY DEF Contract!DeletedIds
  <2>1. {f[e] : e \in {x \in DOMAIN f : line[x] = id}} # {}
    BY <1>2 DEF Logical
  <2>2. PICK e \in DOMAIN f : line[e] = id
    BY <2>1
  <2>3. Entry(s, e) \in DOMAIN live /\ Entry(s, e).entry = e
    BY <1>4 DEF RefsOf, Entry
  <2>4. live[Entry(s, e)] = {id}
    BY <1>4, <2>2, <2>3
  <2> QED
    BY <2>3, <2>4 DEF Contract!Ids
<1>7. \A r \in DOMAIN live : Contract!Cardinality(live[r]) = 1
  BY <1>4, FS_Singleton, SameCardinality
<1>8. \A r, q \in DOMAIN live : r # q => live[r] # live[q]
  BY <1>2, <1>4
<1>9. PICK b : b = [live |-> live, deleted |-> Contract!DeletedIds(live), kind |-> "root"]
  OBVIOUS
<1>10. b.live = live /\ b.deleted = {} /\ b.deleted = E0 \ Contract!Ids(live)
  BY <1>6, <1>9 DEF Contract!DeletedIds
<1>11. /\ Contract!IsBinding(b.live) /\ b.deleted = E0 \ Contract!Ids(b.live) /\ b.deleted = {}
       /\ \A r \in DOMAIN b.live : Contract!Cardinality(b.live[r]) = 1
       /\ \A r, q \in DOMAIN b.live : r # q => b.live[r] # b.live[q]
  BY <1>5, <1>7, <1>8, <1>10
<1>12. Contract!WellFormedRebinding(b)
  BY <1>11 DEF Contract!WellFormedRebinding
<1> QED
  BY <1>9, <1>12

-----------------------------------------------------------------------------
(* The steps of a caller.                                                    *)

\* What a transition's certificate is to the caller that gets it.
LEMMA TransitionAnswer ==
  ASSUME CInv, NEW t \in Tasks, Derived(t), Handler(t), t \notin refused, pc[t] = "verify", pc'[t] = "own",
         NEW s, s = held[t]
  PROVE  /\ rows' = rows /\ held' = held
         /\ Contract!WellFormedCertificate(Certificate(t))
         /\ Contract!Applies(binding[t], Certificate(t), s, s)
         /\ Contract!Applied(binding[t], Certificate(t)) = BindingOf(s, rows[s], lineage'[s])
         /\ Outcome(t) \in frame[t].art.acceptable => Admits(t)
<1>1. PICK pre, e, id, succ, line :
        /\ pre = frame[t].pre /\ e = frame[t].target[1] /\ id = frame[t].art.target
        /\ succ = Successors(t) /\ line = lineage'[s]
  OBVIOUS
<1>2. /\ s \in States /\ pre \in Stores /\ e \in DOMAIN pre
      /\ lineage[s][e] = id /\ id \in E0 /\ e \in Entries
  <2>1. s \in States /\ pre \in Stores /\ e \in DOMAIN pre
    BY <1>1, AimedFacts DEF OnState
  <2>2. e \in DOMAIN lineage[s] /\ lineage[s][e] = id
    BY <1>1, <2>1 DEF CInv, Content, Aimed, OnState
  <2>3. e \in Entries
    BY <2>1, StoreType
  <2> QED
    BY <2>1, <2>2, <2>3 DEF CInv, Typed
<1>3. /\ rows' = rows /\ held' = held
      /\ Shaped(Outcome(t), succ, e)
      /\ Leaves(pre, rows[s], lineage[s], line, e, id, succ)
  BY <1>1, AnswerLeaves
<1>4. succ \in SUBSET Entries
  BY <1>2, <1>3 DEF Shaped
<1>5. binding[t] = BindingOf(s, pre, lineage[s])
  BY <1>1 DEF Derived, OnState
<1>6. /\ Contract!Applies(binding[t], Certificate(t), s, s)
      /\ Contract!Applied(binding[t], Certificate(t)) = BindingOf(s, rows[s], line)
      /\ Contract!BoundTo(Contract!Applied(binding[t], Certificate(t)), s)
  <2>1. Rebinds(Certificate(t), s, BindingOf(s, pre, lineage[s]), BindingOf(s, rows[s], line))
    BY <1>1, <1>2, <1>3, <1>4, CertificateApplies
  <2> QED
    BY <1>5, <2>1 DEF Rebinds
<1>7. Contract!WellFormedCertificate(Certificate(t))
  BY <1>1, <1>2, <1>3, <1>4, CertificateWellFormed
<1>8. Outcome(t) \in frame[t].art.acceptable => Admits(t)
  BY <1>1, <1>3, <1>6, CertificateVerdict DEF Admits
<1> QED
  BY <1>1, <1>3, <1>6, <1>7, <1>8

\* The root call that ends with a state registered it, and its certificate is a root's.
LEMMA RootAnswer ==
  ASSUME CInv, NEW t \in Tasks, Kind(t), pc[t] = "bind", pc'[t] = "own",
         NEW s, s = frame[t].handle
  PROVE  /\ s \in States /\ held'[t] = s /\ rows' = rows
         /\ RootReply(t) = BindingOf(s, rows[s], lineage'[s])
         /\ Contract!WellFormedRebinding(
              [live |-> RootReply(t), deleted |-> Contract!DeletedIds(RootReply(t)), kind |-> "root"])
<1>1. Opens(t)
  BY DEF Kind, Ends, Clears, Makes, Fills, Aims, Proceeds, Accepts, Reads
<1>2. s \in States
  BY DEF CInv, IInv, Ownership, Shape, Nothing, Making, Holding
<1>3. PICK inv, line : inv = frame[t].inv /\ line = RootLineage(rows[s], inv)
  OBVIOUS
<1>4. SameKeys(rows[s], inv) /\ ~Repeats(inv) /\ Register(t, s, inv, line) /\ rows' = rows
  BY <1>1, <1>3 DEF Opens, storeVars
<1>5. held'[t] = s /\ lineage'[s] = line
  BY <1>2, <1>4 DEF Register, CInv, Typed, IInv, Shape
<1>6. rows[s] \in Stores /\ inv \in Inventories
  BY <1>2, <1>3 DEF CInv, Typed, Content, Framed
<1>7. RootReply(t) = BindingOf(s, rows[s], line)
  BY <1>3 DEF RootReply
<1>8. Contract!WellFormedRebinding(
        [live |-> RootReply(t), deleted |-> Contract!DeletedIds(RootReply(t)), kind |-> "root"])
  BY <1>2, <1>3, <1>4, <1>6, <1>7, RootWellFormed
<1> QED
  BY <1>2, <1>4, <1>5, <1>7, <1>8

\* Any other step leaves what the re-binding is derived from alone.
LEMMA OtherAnswer ==
  ASSUME CInv, NEW t \in Tasks, Kind(t), pc'[t] # "own", Derived(t), UNCHANGED callerVars
  PROVE  Derived(t)'
<1>1. binding' = binding /\ refused' = refused
  BY DEF callerVars
<1>2. CASE Ends(t) \/ Clears(t) \/ Makes(t) \/ Fills(t)
  BY <1>2 DEF Ends, Clears, Makes, Fills, Derived, Certain, OnState
<1>3. CASE Opens(t) \/ Accepts(t)
  BY <1>3 DEF Opens, Register, Accepts, Accept, Return, Goto, CInv, IInv, Shape
<1>4. CASE Aims(t)
  <2>1. /\ pc[t] \in Certain /\ pc'[t] \in OnState /\ frame'[t].pre = rows[held[t]]
        /\ held' = held /\ lineage' = lineage
    BY <1>4 DEF Aims, Aim, Goto, Certain, OnState, CInv, IInv, Shape, protocolVars
  <2> QED
    BY <1>1, <2>1 DEF Derived, Certain, OnState
<1>5. CASE Proceeds(t)
  BY <1>1, <1>5 DEF Proceeds, Derived, Certain, OnState
<1>6. CASE Reads(t)
  <2>1. /\ pc[t] \in Certain /\ pc'[t] \in Certain /\ pc'[t] \notin OnState
        /\ held' = held /\ lineage' = lineage /\ rows' = rows
    BY <1>6 DEF Reads, Certain, OnState, storeVars, protocolVars
  <2> QED
    BY <1>1, <2>1 DEF Derived
<1> QED
  BY <1>2, <1>3, <1>4, <1>5, <1>6 DEF Kind

LEMMA CallerStep ==
  ASSUME CInv, PInv, NEW t \in Tasks, Call(t) \/ GiveUp(t), UNCHANGED profile
  PROVE  PInv'
<1>1. Step(t)
  BY DEF Call, GiveUp, Step
<1>2. Effect(t) /\ Apart(t) /\ Kind(t)
  BY <1>1, StepContent
<1>3. Derived(t)
  BY DEF PInv
<1>4. /\ DOMAIN binding' = Tasks
      /\ \A u \in Tasks \ {t} : binding'[u] = binding[u] /\ (u \in refused' <=> u \in refused)
  BY DEF PInv, Call, GiveUp, TakeRoot, TakeTransition, TakeNothing, Rebound, callerVars
<1>5. Derived(t)'
  <2>1. CASE GiveUp(t)
    <3>1. pc'[t] = "teardown"
      BY <2>1 DEF GiveUp, Discard, Goto, CInv, IInv, Shape
    <3> QED
      BY <3>1 DEF Derived, Certain, OnState
  <2>2. CASE Call(t) /\ TakeRoot(t)
    <3>1. PICK s : s = frame[t].handle
      OBVIOUS
    <3>2. pc[t] = "bind" /\ pc'[t] = "own" /\ binding'[t] = RootReply(t)
      BY <2>2 DEF TakeRoot, Rebound, PInv
    <3>3. held'[t] = s /\ rows' = rows /\ RootReply(t) = BindingOf(s, rows[s], lineage'[s])
      BY <1>2, <3>1, <3>2, RootAnswer
    <3>4. binding'[t] = BindingOf(held'[t], rows'[held'[t]], lineage'[held'[t]])
      BY <3>2, <3>3
    <3> QED
      BY <3>2, <3>4 DEF Derived, OnState
  <2>3. CASE Call(t) /\ TakeTransition(t)
    <3>1. PICK s : s = held[t]
      OBVIOUS
    <3>2. pc[t] = "verify" /\ pc'[t] = "own" /\ Handler(t) /\ t \notin refused
      BY <2>3 DEF TakeTransition, Call
    <3>3. /\ rows' = rows /\ held' = held
          /\ Contract!Applied(binding[t], Certificate(t)) = BindingOf(s, rows[s], lineage'[s])
      BY <1>3, <3>1, <3>2, TransitionAnswer
    <3>4. CASE Admits(t)
      <4>1. binding'[t] = Contract!Applied(binding[t], Certificate(t))
        BY <2>3, <3>4 DEF TakeTransition, Rebound, PInv
      <4>2. binding'[t] = BindingOf(held'[t], rows'[held'[t]], lineage'[held'[t]])
        BY <3>1, <3>3, <4>1
      <4> QED
        BY <3>2, <4>2 DEF Derived, OnState
    <3>5. CASE ~Admits(t)
      BY <2>3, <3>5 DEF TakeTransition, Derived
    <3> QED
      BY <3>4, <3>5
  <2>4. CASE TakeNothing(t)
    BY <1>2, <1>3, <2>4, OtherAnswer DEF TakeNothing
  <2> QED
    BY <2>1, <2>2, <2>3, <2>4 DEF Call
<1>6. ASSUME NEW u \in Tasks, u # t PROVE Derived(u)'
  BY <1>2, <1>4, <1>6, DerivedElsewhere DEF PInv
<1> QED
  BY <1>4, <1>5, <1>6 DEF PInv

LEMMA ProtocolPInv == CInv /\ PInv /\ [ProtocolNext]_allVars => PInv'
<1> SUFFICES ASSUME CInv, PInv, [ProtocolNext]_allVars PROVE PInv'
  OBVIOUS
<1>1. CASE UNCHANGED allVars
  <2>1. UNCHANGED <<binding, refused, pc, held, frame, rows, lineage>>
    BY <1>1 DEF allVars, callerVars, vars, callVars, storeVars, protocolVars
  <2> QED
    BY <2>1 DEF PInv, Derived
<1>2. CASE ProtocolNext
  BY <1>2, CallerStep DEF ProtocolNext
<1> QED
  BY <1>1, <1>2

LEMMA ProtocolInvariant == ProtocolSpec => [](CInv /\ PInv)
<1>1. ProtocolInit => PInv
  BY DEF ProtocolInit, Init, InitWith, PInv, Derived, Certain, OnState
<1>2. ProtocolSpec => []CInv
  BY ProtocolImplements, ContentInvariant, PTL
<1> QED
  BY <1>1, <1>2, ProtocolPInv, PTL DEF ProtocolSpec

\* The caller's re-binding, derived from certificates alone, is the one of the back end's
\* lineage map: for every back end, store, program of transitions and interleaving.
THEOREM RebindingsAgree == ProtocolSpec => []RebindingAgrees
<1>1. CInv /\ PInv => RebindingAgrees
  <2> SUFFICES ASSUME PInv, NEW t \in Tasks \ refused, NEW s, s = held[t], pc[t] \in Certain
               PROVE  /\ binding[t] = BindingOf(s, rows[s], lineage[s])
                      /\ Contract!MatchesRebinding(Descendant(s), binding[t], Contract!DeletedIds(binding[t]))
    BY DEF RebindingAgrees, Certain
  <2>1. binding[t] = BindingOf(s, rows[s], lineage[s])
    BY DEF PInv, Derived
  <2>2. /\ Descendant(s).bag = Contract!TokenBag(binding[t])
        /\ Descendant(s).deleted = Contract!DeletedIds(binding[t])
    BY <2>1 DEF Descendant
  <2> QED
    BY <2>1, <2>2 DEF Contract!MatchesRebinding
<1> QED
  BY <1>1, ProtocolInvariant, PTL

\* A back end's certificate is well formed and applies to the caller's re-binding; only an
\* outcome the artifact does not accept is a reason to refuse it.
THEOREM CertificatesAlwaysFit == ProtocolSpec => CertificatesFit
<1>1. ASSUME CInv, PInv, [ProtocolNext]_allVars, NEW t \in Tasks
      PROVE  RootFits(t) /\ TransitionFits(t)
  <2> SUFFICES ASSUME pc[t] \in {"bind", "verify"}, pc'[t] = "own"
               PROVE  RootFits(t) /\ TransitionFits(t)
    BY DEF RootFits, TransitionFits
  <2>1. pc'[t] # pc[t]
    OBVIOUS
  <2>2. ProtocolNext
    BY <1>1, <2>1 DEF allVars, vars, callVars
  <2>3. PICK u \in Tasks : (Call(u) \/ GiveUp(u)) /\ UNCHANGED profile
    BY <2>2 DEF ProtocolNext
  <2>4. Effect(u) /\ Kind(u)
    <3>1. Step(u)
      BY <2>3 DEF Call, GiveUp, Step
    <3> QED
      BY <1>1, <3>1, StepContent
  <2>5. u = t
    BY <1>1, <2>1, <2>4, Untouched DEF CInv
  <2>6. ~GiveUp(t)
    <3>1. GiveUp(t) => pc'[t] = "teardown"
      BY <1>1 DEF GiveUp, Discard, Goto, CInv, IInv, Shape
    <3> QED
      BY <3>1
  <2>7. t \notin refused /\ Handler(t)
    BY <2>3, <2>5, <2>6 DEF Call
  <2>8. CASE pc[t] = "bind"
    <3>1. Contract!WellFormedRebinding(
            [live |-> RootReply(t), deleted |-> Contract!DeletedIds(RootReply(t)), kind |-> "root"])
      BY <1>1, <2>4, <2>5, <2>8, RootAnswer
    <3> QED
      BY <2>8, <3>1 DEF RootFits, TransitionFits
  <2>9. CASE pc[t] = "verify"
    <3>1. Derived(t)
      BY <1>1 DEF PInv
    <3>2. /\ Contract!WellFormedCertificate(Certificate(t))
          /\ Contract!Applies(binding[t], Certificate(t), held[t], held[t])
          /\ Outcome(t) \in frame[t].art.acceptable => Admits(t)
      BY <1>1, <2>7, <2>9, <3>1, TransitionAnswer
    <3> QED
      BY <2>9, <3>2 DEF RootFits, TransitionFits
  <2> QED
    BY <2>8, <2>9
<1>2. CInv /\ PInv /\ [ProtocolNext]_allVars => [\A t \in Tasks : RootFits(t) /\ TransitionFits(t)]_allVars
  BY <1>1
<1> QED
  BY <1>2, ProtocolInvariant, PTL DEF ProtocolSpec, CertificatesFit
=============================================================================
