------------------------- MODULE ReceiptUpload_proofs -------------------------
(* Proofs about ReceiptUpload for any number of uploads, places and failures.

   FilesFollow says where the files of an upload are in each of its phases,
   RecordsFollow what its phase says about the committed rows, and Exclusive
   that a place is held by one transaction.  Together with the types they are
   inductive.  *)
EXTENDS ReceiptUpload, TLAPS

FilesFollow(u) ==
    /\ upload[u].phase \in {"idle", "read", "refused"} => u \notin temporary \cup stored
    /\ upload[u].phase \in {"storing", "prepared", "locked"} => u \notin stored
    /\ upload[u].phase \in {"renamed", "written", "accepted"} => u \in stored

RecordsFollow(u) ==
    /\ upload[u].phase = "accepted" => recorded[upload[u].place] = u
    /\ Holds(u) => recorded[upload[u].place] = None
    /\ \A s \in Places : recorded[s] = u =>
          /\ upload[u].place = s
          /\ upload[u].phase = "accepted" \/ u \in unheard

Exclusive ==
    \A u, v \in Uploads :
        Holds(u) /\ Holds(v) /\ upload[u].place = upload[v].place => u = v

Inv ==
    /\ TypeOK
    /\ \A u \in Uploads : FilesFollow(u)
    /\ \A u \in Uploads : RecordsFollow(u)
    /\ Exclusive

Phases == {"accepted", "refused", "lost"} \cup Running

-----------------------------------------------------------------------------
(* A request that has begun reaches a phase in its place. *)
LEMMA Reached ==
    ASSUME TypeOK, NEW u \in Uploads, upload[u].phase # "idle",
           NEW p \in Phases, Reach(u, p)
    PROVE  /\ upload' \in [Uploads -> Upload]
           /\ upload'[u].phase = p /\ upload'[u].place = upload[u].place
           /\ upload[u].place \in Places
           /\ \A v \in Uploads : v # u => upload'[v] = upload[v]
           /\ \A v \in Uploads : upload'[v].place = upload[v].place
<1>1. upload[u] \in [phase : Phases, place : Places]
  BY DEF TypeOK, Upload, Phases
<1>2. [upload[u] EXCEPT !.phase = p] \in [phase : Phases, place : Places]
      /\ [upload[u] EXCEPT !.phase = p].phase = p
      /\ [upload[u] EXCEPT !.phase = p].place = upload[u].place
  BY <1>1
<1>3. upload' = [upload EXCEPT ![u] = [upload[u] EXCEPT !.phase = p]]
  BY DEF Reach, TypeOK
<1> DEFINE r == [upload[u] EXCEPT !.phase = p]
<1>4. r \in Upload
  BY <1>2 DEF Upload, Phases
<1> HIDE DEF r
<1> QED BY <1>1, <1>2, <1>3, <1>4 DEF TypeOK, r

(* What holds a place is a matter of the phase and the place alone. *)
LEMMA HoldsNext ==
    ASSUME NEW u \in Uploads
    PROVE  Holds(u)' <=>
             \/ upload'[u].phase = "written"
             \/ upload'[u].phase \in InTransaction /\ KindOf[upload'[u].place] # "import"
BY DEF Holds, Import

(* A step of one upload that records nothing keeps the invariant if its own
   files follow and it takes hold of its place only when it may. *)
LEMMA OneMoves ==
    ASSUME Inv, NEW u \in Uploads, upload[u].phase \notin {"idle", "accepted"},
           NEW p \in Phases \ {"accepted"}, Reach(u, p),
           UNCHANGED <<recorded, unheard>>,
           failures' \in 0 .. MaxFailures,
           temporary' \subseteq Uploads, stored' \subseteq Uploads \ temporary',
           \A v \in Uploads \ {u} :
               (v \in temporary' <=> v \in temporary) /\ (v \in stored' <=> v \in stored),
           p \in {"read", "refused"} => u \notin temporary' \cup stored',
           p \in {"storing", "prepared", "locked"} => u \notin stored',
           p \in {"renamed", "written"} => u \in stored',
           p = "written" \/ (p \in InTransaction /\ ~ Import(u)) =>
               Holds(u) \/ (Free(u) /\ Empty(u))
    PROVE  Inv'
<1>1. /\ upload' \in [Uploads -> Upload]
      /\ upload'[u].phase = p /\ upload'[u].place = upload[u].place
      /\ upload[u].place \in Places
      /\ \A v \in Uploads : v # u => upload'[v] = upload[v]
  BY Reached DEF Inv
<1>2. TypeOK'
  BY <1>1 DEF Inv, TypeOK
<1>3. ASSUME NEW v \in Uploads PROVE FilesFollow(v)'
  <2>1. CASE v = u
    BY <1>1, <2>1 DEF FilesFollow, Phases, Running, InTransaction
  <2>2. CASE v # u
    <3>1. FilesFollow(v)
      BY DEF Inv
    <3> QED BY <1>1, <2>2, <3>1 DEF FilesFollow
  <2> QED BY <2>1, <2>2
<1>4. Holds(u)' => Holds(u) \/ (Free(u) /\ Empty(u))
  BY <1>1, HoldsNext DEF Import
<1>5. ASSUME NEW v \in Uploads, v # u PROVE Holds(v)' <=> Holds(v)
  BY <1>1, <1>5, HoldsNext DEF Holds, Import
<1>6. ASSUME NEW v \in Uploads PROVE RecordsFollow(v)'
  <2>1. RecordsFollow(v)
    BY DEF Inv
  <2>2. CASE v = u
    BY <1>1, <1>4, <2>1, <2>2 DEF RecordsFollow, Empty
  <2>3. CASE v # u
    BY <1>1, <1>5, <2>1, <2>3 DEF RecordsFollow
  <2> QED BY <2>2, <2>3
<1>7. Exclusive'
  <2> SUFFICES ASSUME NEW v \in Uploads, NEW w \in Uploads, Holds(v)', Holds(w)',
                      upload'[v].place = upload'[w].place
               PROVE  v = w
    BY DEF Exclusive
  <2>1. CASE v # u /\ w # u
    BY <1>1, <1>5, <2>1 DEF Inv, Exclusive
  <2>2. CASE v = u /\ w # u
    BY <1>1, <1>4, <1>5, <2>2 DEF Inv, Exclusive, Free
  <2>3. CASE v # u /\ w = u
    BY <1>1, <1>4, <1>5, <2>3 DEF Inv, Exclusive, Free
  <2> QED BY <2>1, <2>2, <2>3
<1> QED BY <1>2, <1>3, <1>6, <1>7 DEF Inv

(* Recording a receipt, heard or unheard, keeps the invariant: the place was
   empty and nobody else can record in it. *)
LEMMA RecordKeeps ==
    ASSUME Inv, NEW u \in Uploads, Commit(u) \/ CommitUnheard(u)
    PROVE  Inv'
<1> DEFINE s == upload[u].place
           p == IF Commit(u) THEN "accepted" ELSE "aborted"
<1>1. /\ upload[u].phase = "written" /\ Holds(u) /\ u \in stored
      /\ recorded[s] = None
  BY DEF Commit, CommitUnheard, Holds, Inv, FilesFollow, RecordsFollow
<1>2. /\ recorded' = [recorded EXCEPT ![s] = u]
      /\ UNCHANGED <<temporary, stored, failures>>
      /\ unheard \subseteq unheard' /\ unheard' \subseteq Uploads
      /\ \/ Reach(u, "accepted")
         \/ Reach(u, "aborted") /\ u \in unheard'
  BY DEF Commit, CommitUnheard, Inv, TypeOK
<1>3. PICK q \in {"accepted", "aborted"} :
        Reach(u, q) /\ (q = "aborted" => u \in unheard')
  BY <1>2
<1>4. /\ upload' \in [Uploads -> Upload]
      /\ upload'[u].phase = q /\ upload'[u].place = s /\ s \in Places
      /\ \A v \in Uploads : v # u => upload'[v] = upload[v]
  BY <1>1, <1>3, Reached DEF Inv, Phases, Running
<1>5. TypeOK'
  BY <1>2, <1>4 DEF Inv, TypeOK
<1>6. ASSUME NEW v \in Uploads PROVE FilesFollow(v)'
  <2>1. FilesFollow(v)
    BY DEF Inv
  <2>2. CASE v = u
    BY <1>1, <1>2, <1>4, <2>2 DEF FilesFollow
  <2>3. CASE v # u
    BY <1>2, <1>4, <2>1, <2>3 DEF FilesFollow
  <2> QED BY <2>2, <2>3
<1>7. ~ Holds(u)'
  BY <1>4, HoldsNext DEF InTransaction
<1>8. ASSUME NEW v \in Uploads, v # u PROVE Holds(v)' <=> Holds(v)
  BY <1>4, <1>8, HoldsNext DEF Holds, Import
<1>9. ASSUME NEW r \in Places PROVE recorded'[r] = IF r = s THEN u ELSE recorded[r]
  BY <1>2, <1>9 DEF Inv, TypeOK
<1>10. ASSUME NEW v \in Uploads PROVE RecordsFollow(v)'
  <2>1. RecordsFollow(v) /\ RecordsFollow(u)
    BY DEF Inv
  <2>2. CASE v = u
    BY <1>1, <1>3, <1>4, <1>7, <1>9, <2>1, <2>2 DEF RecordsFollow
  <2>3. CASE v # u
    <3>1. upload'[v] = upload[v]
      BY <1>4, <2>3
    <3>2. upload[v].phase = "accepted" => upload[v].place \in Places
      BY DEF Inv, TypeOK, Upload
    <3>3. None \notin Uploads
      BY NoneAssumption
    <3>4. upload[v].phase = "accepted" => upload[v].place # s
      BY <1>1, <2>1, <3>3 DEF RecordsFollow
    <3>5. Holds(v) => upload[v].place # s /\ upload[v].place \in Places
      BY <1>1, <2>3 DEF Inv, Exclusive, TypeOK, Upload, Holds, InTransaction
    <3>6. \A r \in Places : recorded'[r] = v => recorded[r] = v
      BY <1>9, <2>3
    <3> QED BY <1>2, <1>8, <1>9, <2>1, <2>3, <3>1, <3>2, <3>4, <3>5, <3>6
            DEF RecordsFollow
  <2> QED BY <2>2, <2>3
<1>11. Exclusive'
  BY <1>4, <1>7, <1>8 DEF Inv, Exclusive
<1> QED BY <1>5, <1>6, <1>10, <1>11 DEF Inv

-----------------------------------------------------------------------------
(* The invariant holds initially. *)
LEMMA InvInit == Init => Inv
<1> SUFFICES ASSUME Init PROVE Inv
  OBVIOUS
<1>1. TypeOK
  BY BoundAssumption DEF Init, TypeOK, Upload
<1>2. ASSUME NEW u \in Uploads PROVE FilesFollow(u) /\ ~ Holds(u)
  BY DEF Init, FilesFollow, Holds, InTransaction
<1>3. ASSUME NEW u \in Uploads PROVE RecordsFollow(u)
  BY <1>2, NoneAssumption DEF Init, RecordsFollow
<1>4. Exclusive
  BY <1>2 DEF Exclusive
<1> QED BY <1>1, <1>2, <1>3, <1>4 DEF Inv

(* A request that comes in keeps the invariant: it has no file and no record. *)
LEMMA ReadKeeps ==
    ASSUME Inv, NEW u \in Uploads, NEW s \in Places, Read(u, s)
    PROVE  Inv'
<1>1. /\ upload[u].phase = "idle"
      /\ upload' = [upload EXCEPT ![u] = [phase |-> "read", place |-> s]]
      /\ UNCHANGED <<recorded, temporary, stored, unheard, failures>>
  BY DEF Read
<1>2. /\ upload'[u] = [phase |-> "read", place |-> s]
      /\ \A v \in Uploads : v # u => upload'[v] = upload[v]
  BY <1>1 DEF Inv, TypeOK
<1>3. [phase |-> "read", place |-> s] \in Upload
  BY DEF Upload, Running
<1>4. TypeOK'
  BY <1>1, <1>3 DEF Inv, TypeOK
<1>5. ASSUME NEW v \in Uploads PROVE FilesFollow(v)'
  <2>1. FilesFollow(v)
    BY DEF Inv
  <2> QED BY <1>1, <1>2, <2>1 DEF FilesFollow
<1>6. ~ Holds(u)'
  BY <1>2, HoldsNext DEF InTransaction
<1>7. ASSUME NEW v \in Uploads, v # u PROVE Holds(v)' <=> Holds(v)
  BY <1>2, <1>7, HoldsNext DEF Holds, Import
<1>8. \A r \in Places : recorded[r] # u
  <2>1. upload[u].place = None
    BY <1>1 DEF Inv, TypeOK, Upload, Running, InTransaction
  <2>2. None \notin Places
    BY NoneAssumption
  <2> QED BY <2>1, <2>2 DEF Inv, RecordsFollow
<1>9. ASSUME NEW v \in Uploads PROVE RecordsFollow(v)'
  <2>1. RecordsFollow(v)
    BY DEF Inv
  <2>2. CASE v = u
    BY <1>1, <1>2, <1>6, <1>8, <2>2 DEF RecordsFollow
  <2>3. CASE v # u
    BY <1>1, <1>2, <1>7, <2>1, <2>3 DEF RecordsFollow
  <2> QED BY <2>2, <2>3
<1>10. Exclusive'
  BY <1>2, <1>6, <1>7 DEF Inv, Exclusive
<1> QED BY <1>4, <1>5, <1>9, <1>10 DEF Inv

(* Every other step of a request keeps the invariant. *)
LEMMA WorkKeeps ==
    ASSUME Inv, NEW u \in Uploads, Work(u) \/ Fail(u)
    PROVE  Inv'
<1> USE DEF Phases, Running, InTransaction
<1>1. /\ temporary \subseteq Uploads /\ stored \subseteq Uploads \ temporary
      /\ failures \in 0 .. MaxFailures /\ FilesFollow(u)
  BY DEF Inv, TypeOK
<1>2. CASE Store(u)
  BY <1>1, <1>2, OneMoves DEF Store, FilesFollow
<1>3. CASE Examine(u)
  <2>1. CASE Reach(u, "prepared") /\ UNCHANGED temporary
    BY <1>1, <1>3, <2>1, OneMoves DEF Examine, FilesFollow
  <2>2. CASE Reach(u, "refused") /\ temporary' = temporary \ {u}
    BY <1>1, <1>3, <2>2, OneMoves DEF Examine, FilesFollow
  <2> QED BY <1>3, <2>1, <2>2 DEF Examine
<1>4. CASE Lock(u)
  <2>1. CASE Empty(u)
    <3>1. Reach(u, "locked")
      BY <1>4, <2>1 DEF Lock
    <3> QED BY <1>1, <1>4, <2>1, <3>1, OneMoves DEF Lock, FilesFollow
  <2>2. CASE ~ Empty(u)
    <3>1. Reach(u, "aborted")
      BY <1>4, <2>2 DEF Lock
    <3> QED BY <1>1, <1>4, <3>1, OneMoves DEF Lock
  <2> QED BY <2>1, <2>2
<1>5. CASE Rename(u)
  <2>1. /\ Reach(u, "renamed")
        /\ temporary' = temporary \ {u} /\ stored' = stored \cup {u}
        /\ UNCHANGED <<recorded, unheard, failures>>
        /\ upload[u].phase \in {"locked", "prepared"}
        /\ Import(u) \/ upload[u].phase = "locked"
    BY <1>5 DEF Rename
  <2>2. Import(u) \/ Holds(u)
    BY <2>1 DEF Holds
  <2> QED BY <1>1, <2>1, <2>2, OneMoves
<1>6. CASE Write(u)
  <2>1. CASE Empty(u)
    <3>1. Reach(u, "written")
      BY <1>6, <2>1 DEF Write
    <3> QED BY <1>1, <1>6, <2>1, <3>1, OneMoves DEF Write, FilesFollow
  <2>2. CASE ~ Empty(u)
    <3>1. Reach(u, "aborted")
      BY <1>6, <2>2 DEF Write
    <3> QED BY <1>1, <1>6, <3>1, OneMoves DEF Write
  <2> QED BY <2>1, <2>2
<1>7. CASE Commit(u)
  BY <1>7, RecordKeeps
<1>8. CASE Discard(u)
  BY <1>1, <1>8, OneMoves DEF Discard
<1>9. CASE Fail(u)
  <2>1. failures' \in 0 .. MaxFailures
    BY <1>1, <1>9, BoundAssumption DEF Fail
  <2> QED BY <1>1, <1>9, <2>1, OneMoves DEF Fail
<1> QED BY <1>2, <1>3, <1>4, <1>5, <1>6, <1>7, <1>8, <1>9 DEF Work

(* A crash keeps the invariant: it changes no file and no committed row, and
   gives every place free. *)
LEMMA CrashKeeps ==
    ASSUME Inv, Crash
    PROVE  Inv'
<1>1. failures' \in 0 .. MaxFailures /\ UNCHANGED <<recorded, temporary, stored, unheard>>
  BY BoundAssumption DEF Inv, TypeOK, Crash
<1>2. ASSUME NEW u \in Uploads
      PROVE  /\ upload'[u].place = upload[u].place /\ upload'[u] \in Upload
             /\ \/ upload'[u].phase = upload[u].phase /\ upload[u].phase \notin Running
                \/ upload'[u].phase = "lost" /\ upload[u].phase \in Running
  <2>1. CASE upload[u].phase \in Running
    <3>1. upload[u] \in [phase : {"accepted", "refused", "lost"} \cup Running,
                         place : Places]
      BY <2>1 DEF Inv, TypeOK, Upload, Running, InTransaction
    <3>2. upload'[u] = [upload[u] EXCEPT !.phase = "lost"]
      BY <2>1 DEF Crash
    <3>3. upload'[u] \in [phase : {"lost"}, place : Places]
          /\ upload'[u].place = upload[u].place
      BY <3>1, <3>2
    <3> QED BY <2>1, <3>3 DEF Upload
  <2>2. CASE upload[u].phase \notin Running
    BY <2>2 DEF Crash, Inv, TypeOK
  <2> QED BY <2>1, <2>2
<1>3. upload' = [u \in Uploads |-> upload'[u]]
  BY DEF Crash
<1>4. TypeOK'
  BY <1>1, <1>2, <1>3 DEF Inv, TypeOK
<1>5. ASSUME NEW u \in Uploads PROVE FilesFollow(u)'
  <2>1. FilesFollow(u)
    BY DEF Inv
  <2> QED BY <1>1, <1>2, <2>1 DEF FilesFollow
<1>6. ASSUME NEW u \in Uploads PROVE ~ Holds(u)'
  BY <1>2, HoldsNext DEF Running, InTransaction
<1>7. ASSUME NEW u \in Uploads PROVE RecordsFollow(u)'
  <2>1. RecordsFollow(u)
    BY DEF Inv
  <2>2. upload'[u].phase = "accepted" <=> upload[u].phase = "accepted"
    BY <1>2 DEF Running, InTransaction
  <2> QED BY <1>1, <1>2, <1>6, <2>1, <2>2 DEF RecordsFollow
<1>8. Exclusive'
  BY <1>6 DEF Exclusive
<1> QED BY <1>4, <1>5, <1>7, <1>8 DEF Inv

(* Every step keeps the invariant. *)
LEMMA InvStep == Inv /\ [Next]_vars => Inv'
<1> SUFFICES ASSUME Inv, [Next]_vars PROVE Inv'
  OBVIOUS
<1>1. CASE UNCHANGED vars
  BY <1>1 DEF vars, Inv, TypeOK, FilesFollow, RecordsFollow, Exclusive, Holds, Import
<1>2. CASE Next
  BY <1>2, ReadKeeps, WorkKeeps, RecordKeeps, CrashKeeps DEF Next
<1> QED BY <1>1, <1>2

(* The inductive invariant holds in every reachable state. *)
LEMMA Invariance == Spec => []Inv
BY InvInit, InvStep, PTL DEF Spec

-----------------------------------------------------------------------------
(* Types: every variable has its type, and no file is both temporary and stored. *)
THEOREM TypeCorrect == Spec => []TypeOK
<1>1. Inv => TypeOK
  BY DEF Inv
<1> QED BY <1>1, Invariance, PTL

(* Whoever was told that a receipt is accepted finds it recorded and stored. *)
THEOREM AcceptanceStored == Spec => []AcceptedIsStored
<1>1. Inv => AcceptedIsStored
  BY DEF Inv, FilesFollow, RecordsFollow, AcceptedIsStored
<1> QED BY <1>1, Invariance, PTL

(* Only an unheard commit can leave a record without its file. *)
THEOREM LossOnlyUnheard == Spec => []MissingOnlyUnheard
<1>1. Inv => MissingOnlyUnheard
  <2> SUFFICES ASSUME Inv, NEW s \in Places, recorded[s] # None
               PROVE  recorded[s] \in stored \cup unheard
    BY DEF MissingOnlyUnheard
  <2>1. recorded[s] \in Uploads
    BY DEF Inv, TypeOK
  <2> QED BY <2>1 DEF Inv, FilesFollow, RecordsFollow
<1> QED BY <1>1, Invariance, PTL

(* Every file belongs to a request at work, to its record or to a crash. *)
THEOREM NothingLeftBehind == Spec => []FilesAccounted
<1>1. Inv => FilesAccounted
  <2> SUFFICES ASSUME Inv, NEW u \in temporary \cup stored
               PROVE  \/ upload[u].phase \in Running \cup {"lost"}
                      \/ recorded[upload[u].place] = u
    BY DEF FilesAccounted
  <2>1. u \in Uploads
    BY DEF Inv, TypeOK
  <2>2. FilesFollow(u) /\ RecordsFollow(u) /\ upload[u] \in Upload
    BY <2>1 DEF Inv, TypeOK
  <2>3. upload[u].phase \notin {"idle", "refused"}
    BY <2>2 DEF FilesFollow
  <2>4. upload[u].phase \in {"accepted", "lost"} \cup Running
    BY <2>2, <2>3 DEF Upload
  <2> QED BY <2>2, <2>4 DEF RecordsFollow
<1> QED BY <1>1, Invariance, PTL

(* A recorded receipt is never replaced. *)
THEOREM ReceiptsKept == Spec => NeverReplaced
<1>1. Inv /\ [Next]_vars =>
        [\A s \in Places : recorded[s] # None => recorded'[s] = recorded[s]]_vars
  <2> SUFFICES ASSUME Inv, Next, NEW s \in Places, recorded[s] # None
               PROVE  recorded'[s] = recorded[s]
    OBVIOUS
  <2>1. ASSUME NEW u \in Uploads, Commit(u) \/ CommitUnheard(u)
        PROVE  recorded'[s] = recorded[s]
    <3>1. recorded' = [recorded EXCEPT ![upload[u].place] = u] /\ Holds(u)
      BY <2>1 DEF Commit, CommitUnheard, Holds
    <3>2. recorded[upload[u].place] = None
      BY <3>1 DEF Inv, RecordsFollow
    <3> QED BY <3>1, <3>2 DEF Inv, TypeOK
  <2>2. ASSUME NEW u \in Uploads,
               \/ \E r \in Places : Read(u, r)
               \/ Store(u) \/ Examine(u) \/ Lock(u) \/ Rename(u) \/ Write(u)
               \/ Discard(u) \/ Fail(u)
        PROVE  recorded' = recorded
    BY <2>2 DEF Read, Store, Examine, Lock, Rename, Write, Discard, Fail
  <2>3. CASE Crash
    BY <2>3 DEF Crash
  <2> QED BY <2>1, <2>2, <2>3 DEF Next, Work
<1> QED BY <1>1, Invariance, PTL DEF Spec, NeverReplaced
=============================================================================
