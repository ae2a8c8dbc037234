----------------------------- MODULE StoreProofs ----------------------------
(***************************************************************************)
(* What the proofs about the local and the remote backend share: facts     *)
(* about the store's execution list, and the steps of scheduler, compute   *)
(* worker and import as steps of the execution contract.                   *)
(***************************************************************************)
EXTENDS BourneStore, TLAPS

\* A job identity is handed out together with the execution that it runs, and no
\* execution has two of them.
OneJobEach ==
    /\ \A j \in Jobs : jobPhase[j] = "free" <=> jobExec[j] = NoExec
    /\ \A j, k \in Jobs : jobExec[j] \in Execs /\ jobExec[j] = jobExec[k] => j = k

\* create_execution adds exactly one execution to the plan.
LEMMA CreatedGrows ==
    ASSUME created \in Seq(Execs), NEW e \in Execs, created' = Append(created, e)
    PROVE  created' \in Seq(Execs) /\ Created' = Created \cup {e}
<1>1. /\ Len(created) \in Nat /\ DOMAIN created = 1..Len(created)
      /\ created' \in Seq(Execs) /\ Len(created') = Len(created) + 1
      /\ DOMAIN created' = 1..(Len(created) + 1)
      /\ \A i \in 1..Len(created) : created'[i] = created[i]
      /\ created'[Len(created) + 1] = e
  OBVIOUS
<1>2. DOMAIN created' = DOMAIN created \cup {Len(created) + 1}
  BY <1>1
<1> QED
  BY <1>1, <1>2 DEF Created

\* The state of the contract, as the store's Contract instance maps it.
contractVars == <<[e \in Execs |-> {j \in Jobs : jobExec[j] = e}], bundle, imported>>

\* The plan starts as the contract does.
LEMMA ContractInit == PlaneInit /\ StoreInit => Contract!Init
  BY IdentityAssumption DEF PlaneInit, StoreInit, Contract!Init

\* A step that hands out no job, publishes nothing and imports nothing is none
\* of the contract's business.
LEMMA ContractStutter == UNCHANGED <<jobExec, bundle, imported>> => UNCHANGED contractVars
  BY DEF contractVars

\* A job accepted for an execution that has none is the contract's Submit.
LEMMA AcceptSubmits ==
    ASSUME PlaneTypeOK, OneJobEach, NEW e \in Execs, NEW j \in Jobs,
           Accept(e, j), ~HasJob(e), UNCHANGED imported
    PROVE  Contract!Next
<1>1. jobExec[j] = NoExec /\ jobExec' = [jobExec EXCEPT ![j] = e] /\ UNCHANGED bundle
  BY DEF Accept, OneJobEach
<1>2. \A f \in Execs, k \in Jobs : jobExec'[k] = f <=> (jobExec[k] = f \/ (k = j /\ f = e))
  BY <1>1, IdentityAssumption DEF PlaneTypeOK
<1>3. Contract!Submit(e, j)
  <2>1. [f \in Execs |-> {k \in Jobs : jobExec[k] = f}][e] = {}
    BY DEF HasJob
  <2>2. \A f \in Execs : j \notin [g \in Execs |-> {k \in Jobs : jobExec[k] = g}][f]
    BY <1>1, IdentityAssumption
  <2>3. [f \in Execs |-> {k \in Jobs : jobExec'[k] = f}]
        = [[f \in Execs |-> {k \in Jobs : jobExec[k] = f}] EXCEPT ![e] = {j}]
    <3>1. {k \in Jobs : jobExec'[k] = e} = {j}
      BY <1>2 DEF HasJob
    <3>2. \A f \in Execs \ {e} : {k \in Jobs : jobExec'[k] = f} = {k \in Jobs : jobExec[k] = f}
      BY <1>2
    <3> QED
      BY <3>1, <3>2
  <2> QED
    BY <1>1, <2>1, <2>2, <2>3 DEF Contract!Submit
<1> QED
  BY <1>3 DEF Contract!Next

\* A compute worker that links its result into place is the contract's Publish.
LEMMA PublishPublishes ==
    ASSUME PlaneTypeOK, OneJobEach, NEW j \in Jobs, NEW kind \in Outcomes,
           PublishResult(j, kind), UNCHANGED imported
    PROVE  Contract!Next
<1>1. jobExec[j] \in Execs /\ UNCHANGED jobExec /\ bundle[jobExec[j]] = "none"
      /\ bundle' = [bundle EXCEPT ![jobExec[j]] = kind]
  BY DEF PlaneTypeOK, OneJobEach, PublishResult
<1>2. PICK e \in Execs : e = jobExec[j]
  BY <1>1
<1>3. [f \in Execs |-> {k \in Jobs : jobExec[k] = f}][e] # {}
  BY <1>2
<1>4. Contract!Publish(e, kind)
  BY <1>1, <1>2, <1>3 DEF Contract!Publish
<1> QED
  BY <1>4 DEF Contract!Next

\* Importing the published outcome of an execution is the contract's Report.
LEMMA ImportReports ==
    ASSUME NEW e \in Execs, import_result(e, bundle[e]), bundle[e] # "none",
           UNCHANGED <<jobExec, bundle>>
    PROVE  Contract!Next
<1>1. Contract!Report(e)
  BY DEF import_result, CanImport, Contract!Report
<1> QED
  BY <1>1 DEF Contract!Next
=============================================================================
