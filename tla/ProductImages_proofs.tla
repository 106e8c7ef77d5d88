-------------------------- MODULE ProductImages_proofs --------------------------
(* Proofs about ProductImages for any number of requests, products and shops.

   The files of a request follow its phase (FilesFollow).  A row names only what has
   been committed to it (RowsFollow).  What a request takes for the old image was once
   the row's, and once it is replaced no row names it again, because images are never
   committed twice (OldFollows); under the lock of a product it is the image the row
   has now, since only one transaction holds the row (Exclusive).  *)
EXTENDS ProductImages, TLAPS

Committed(u) == upload[u].phase \in Written \/ u \in unheard

FilesFollow(u) ==
    /\ upload[u].phase \in {"idle", "read", "refused"} => u \notin temporary \cup stored
    /\ upload[u].phase \in {"prepared", "locked"} => u \notin stored
    /\ upload[u].phase = "renamed" => u \in stored
    /\ ~upload[u].image => u \notin temporary \cup stored
    /\ upload[u].phase \in Written => u \notin temporary

KindFollows(u) ==
    /\ upload[u].phase # "idle" => upload[u].place \in Places /\ upload[u].kind # "none"
    /\ upload[u].kind = "logo" => upload[u].place \in Logos
    /\ upload[u].kind \in {"create", "update"} => upload[u].place \in Products
    /\ upload[u].kind \in {"create", "logo"} => upload[u].image
    /\ upload[u].phase \in {"replaced", "left"} => upload[u].image
    /\ upload[u].phase = "renamed" => upload[u].image
    /\ upload[u].kind = "update" => row[upload[u].place] # None
    /\ upload[u].kind = "create" => upload[u].phase \notin {"locked", "replaced", "left"}
    /\ upload[u].phase = "locked" => upload[u].kind = "update"
    /\ u \in unheard => upload[u].phase \in {"aborted", "refused", "lost"}

RowsFollow ==
    \A s \in Places :
        /\ row[s] \in Places => row[s] = s
        /\ \A v \in Uploads : row[s] = v => upload[v].place = s /\ Committed(v)

OldFollows(u) ==
    /\ upload[u].old \in Images =>
          /\ upload[u].place \in Places
          /\ Place(upload[u].old) = upload[u].place
          /\ upload[u].old \in Uploads => Committed(upload[u].old)
    /\ upload[u].old # None /\ Committed(u) /\ upload[u].image =>
          row[upload[u].place] # upload[u].old
    /\ Holds(u) => row[upload[u].place] = upload[u].old

Exclusive ==
    \A u, v \in Uploads :
        Holds(u) /\ Holds(v) /\ upload[u].place = upload[v].place => u = v

IInv ==
    /\ TypeOK
    /\ \A u \in Uploads : FilesFollow(u)
    /\ \A u \in Uploads : KindFollows(u)
    /\ RowsFollow
    /\ \A u \in Uploads : OldFollows(u)
    /\ Exclusive
    /\ MissingOnlyUnheard
    /\ ProductFilesAccounted

-----------------------------------------------------------------------------
(* A request moves to a phase and keeps what it has. *)
LEMMA Moved ==
    ASSUME TypeOK, NEW u \in Uploads,
           NEW p \in {"refused", "lost"} \cup Running \cup Written, Reach(u, p)
    PROVE  /\ upload' \in [Uploads -> Request]
           /\ upload'[u].phase = p
           /\ \A v \in Uploads : v # u => upload'[v] = upload[v]
           /\ \A v \in Uploads :
                 /\ upload'[v].kind = upload[v].kind /\ upload'[v].place = upload[v].place
                 /\ upload'[v].image = upload[v].image /\ upload'[v].old = upload[v].old
<1> DEFINE r == [upload[u] EXCEPT !.phase = p]
<1>1. upload[u] \in Request
  BY DEF TypeOK
<1>2. /\ r \in Request /\ r.phase = p
      /\ r.kind = upload[u].kind /\ r.place = upload[u].place
      /\ r.image = upload[u].image /\ r.old = upload[u].old
  BY <1>1 DEF Request, Running, Written
<1>3. upload' = [upload EXCEPT ![u] = r]
  BY DEF Reach
<1> HIDE DEF r
<1> QED BY <1>2, <1>3 DEF TypeOK

(* A row names an image of its own place. *)
LEMMA RowPlace ==
    ASSUME TypeOK, RowsFollow, NEW s \in Places, row[s] # None
    PROVE  row[s] \in Images /\ Place(row[s]) = s
BY NameAssumption DEF TypeOK, RowsFollow, Place, Images

(* Nobody takes a request for an old image that has committed nothing yet, and no row
   names its image. *)
LEMMA Fresh ==
    ASSUME IInv, NEW u \in Uploads, ~Committed(u)
    PROVE  /\ \A v \in Uploads : upload[v].old # u
           /\ \A s \in Places : row[s] # u
BY NameAssumption DEF IInv, TypeOK, OldFollows, RowsFollow, Images

(* The initial states satisfy the invariant. *)
LEMMA InitInv == Init => IInv
<1> SUFFICES ASSUME Init PROVE IInv
  OBVIOUS
<1> USE PlaceAssumption, NameAssumption, BoundAssumption
<1>1. TypeOK
  BY DEF Init, TypeOK, Images, Request, Idle, Places
<1>2. \A u \in Uploads : FilesFollow(u) /\ KindFollows(u) /\ OldFollows(u)
  BY DEF Init, Idle, FilesFollow, KindFollows, OldFollows, Holds, Committed, Written, Images, Places
<1>3. RowsFollow
  BY DEF Init, RowsFollow, Places
<1>4. Exclusive
  BY DEF Init, Exclusive, Holds, Idle
<1>5. MissingOnlyUnheard
  BY DEF Init, MissingOnlyUnheard
<1>6. ProductFilesAccounted
  BY DEF Init, ProductFilesAccounted, Owned, Place, Places
<1> QED BY <1>1, <1>2, <1>3, <1>4, <1>5, <1>6 DEF IInv

-----------------------------------------------------------------------------
(* A handler that begins keeps the invariant. *)
LEMMA BeginStep ==
    ASSUME IInv, NEW u \in Uploads, NEW s \in Places, NEW image \in BOOLEAN,
           NEW kind \in {"create", "update", "logo"}, Begin(u, kind, s, image),
           kind = "logo" <=> s \in Logos,
           kind \in {"create", "logo"} => image,
           kind = "update" => row[s] # None
    PROVE  IInv'
<1> USE PlaceAssumption, NameAssumption
<1> DEFINE r == [phase |-> "read", kind |-> kind, place |-> s, image |-> image, old |-> row[s]]
<1>1. r \in Request
  BY DEF IInv, TypeOK, Request, Running
<1>2. /\ upload' \in [Uploads -> Request] /\ upload'[u] = r
      /\ \A v \in Uploads : v # u => upload'[v] = upload[v]
      /\ upload[u].phase = "idle" /\ UNCHANGED <<row, temporary, stored, unheard, failures>>
  BY <1>1 DEF IInv, TypeOK, Begin
<1>3. ~Committed(u) /\ ~Committed(u)'
  BY <1>2 DEF Committed, Written, IInv, KindFollows
<1>4. u \notin temporary \cup stored
  BY <1>2 DEF IInv, FilesFollow
<1>5. \A v \in Uploads : Committed(v)' <=> Committed(v)
  BY <1>2, <1>3 DEF Committed
<1>6. \A v \in Uploads : Holds(v)' => v # u /\ Holds(v)
  BY <1>2 DEF Holds
<1>7. \A f \in Images : f # u => Place(f)' = Place(f)
  BY <1>2 DEF Place, Images
<1>8. \A v \in Uploads : upload[v].old # u
  BY <1>3, Fresh
<1>9. \A t \in Places : row[t] # u
  BY <1>3, Fresh
<1>10. TypeOK'
  BY <1>2 DEF IInv, TypeOK
<1>11. \A v \in Uploads : FilesFollow(v)'
  BY <1>2, <1>4 DEF IInv, FilesFollow, Written
<1>12. \A v \in Uploads : KindFollows(v)'
  BY <1>2 DEF IInv, KindFollows, Places
<1>13. RowsFollow'
  BY <1>2, <1>5, <1>9 DEF IInv, RowsFollow
<1>14. \A v \in Uploads : OldFollows(v)'
  <2>1. OldFollows(u)'
    <3>1. upload'[u].old = row[s] /\ upload'[u].place = s
      BY <1>2
    <3>2. ASSUME NEW f \in Images, f = row[s]
          PROVE  Place(f)' = s /\ (f \in Uploads => Committed(f)')
      BY <3>2, <1>5, <1>7, <1>9, RowPlace DEF IInv, RowsFollow, Images
    <3> QED BY <3>1, <3>2, <1>3, <1>6 DEF OldFollows, Place, Committed
  <2>2. ASSUME NEW v \in Uploads, v # u PROVE OldFollows(v)'
    <3>1. OldFollows(v) /\ upload'[v] = upload[v] /\ row' = row
      BY <1>2, <2>2 DEF IInv
    <3>2. upload[v].old # u
      BY <1>8
    <3> QED BY <3>1, <3>2, <1>5, <1>6, <1>7 DEF OldFollows, Place, Committed
  <2> QED BY <2>1, <2>2
<1>15. Exclusive'
  BY <1>2, <1>6 DEF IInv, Exclusive
<1>16. MissingOnlyUnheard'
  BY <1>2 DEF IInv, MissingOnlyUnheard
<1>17. ProductFilesAccounted'
  <2> SUFFICES ASSUME NEW f \in temporary \cup stored, Place(f)' \notin Logos
               PROVE  Owned(f)' \/ Replaced(f)'
    BY <1>2 DEF ProductFilesAccounted
  <2>1. f # u /\ f \in Images
    BY <1>4 DEF IInv, TypeOK, Images
  <2>2. Place(f)' = Place(f)
    BY <2>1, <1>7
  <2>3. Owned(f) \/ Replaced(f)
    BY <2>2 DEF IInv, ProductFilesAccounted
  <2>4. Owned(f) => Owned(f)'
    BY <2>1, <2>2, <1>2 DEF Owned
  <2>5. Replaced(f) => Replaced(f)'
    <3> SUFFICES ASSUME NEW v \in Uploads, upload[v].old = f,
                        upload[v].phase \in {"replaced", "left"} \/ v \in unheard
                 PROVE  Replaced(f)'
      BY DEF Replaced
    <3>1. v # u
      BY <1>3 DEF Committed, Written
    <3> QED BY <3>1, <1>2 DEF Replaced
  <2> QED BY <2>3, <2>4, <2>5
<1> QED BY <1>10, <1>11, <1>12, <1>13, <1>14, <1>15, <1>16, <1>17 DEF IInv

(* A step of one request that writes no row keeps the invariant if the request's own
   files follow and it does not take hold of a row. *)
LEMMA RowKept ==
    ASSUME IInv, NEW u \in Uploads, upload[u].phase \in Running,
           NEW p \in {"refused", "prepared", "renamed", "aborted"}, Reach(u, p),
           UNCHANGED <<row, unheard>>, failures' \in 0..MaxFailures,
           temporary' \subseteq Uploads, stored' \subseteq Images \ temporary',
           \A f \in Images : f # u =>
               (f \in temporary' <=> f \in temporary) /\ (f \in stored' <=> f \in stored),
           p = "refused" \/ ~upload[u].image => u \notin temporary' \cup stored',
           p = "prepared" => u \notin stored',
           p = "renamed" => u \in stored' /\ upload[u].image
                            /\ (upload[u].kind = "update" => upload[u].phase = "locked"),
           u \in unheard => p \in {"refused", "aborted"}
    PROVE  IInv'
<1> USE PlaceAssumption, NameAssumption
<1>1. /\ upload' \in [Uploads -> Request] /\ upload'[u].phase = p
      /\ \A v \in Uploads : v # u => upload'[v] = upload[v]
      /\ \A v \in Uploads :
            /\ upload'[v].kind = upload[v].kind /\ upload'[v].place = upload[v].place
            /\ upload'[v].image = upload[v].image /\ upload'[v].old = upload[v].old
  <2>1. p \in {"refused", "lost"} \cup Running \cup Written
    BY DEF Running
  <2> QED BY <2>1, Moved DEF IInv
<1>2. /\ upload[u].phase \notin Written \cup {"idle"} /\ p \notin Written
      /\ upload[u].phase \in {"read", "prepared", "locked", "renamed", "aborted"}
  BY DEF Running, Written
<1>3. \A v \in Uploads : Committed(v)' <=> Committed(v)
  BY <1>1, <1>2 DEF Committed
<1>4. \A v \in Uploads : Holds(v)' => Holds(v)
  BY <1>1 DEF Holds
<1>5. \A f \in Images : Place(f)' = Place(f)
  BY <1>1 DEF Place, Images
<1>6. TypeOK'
  BY <1>1 DEF IInv, TypeOK
<1>7. \A v \in Uploads : FilesFollow(v)'
  BY <1>1, <1>2 DEF IInv, FilesFollow, Images
<1>8. \A v \in Uploads : KindFollows(v)'
  <2>1. KindFollows(u)'
    <3>1. KindFollows(u)
      BY DEF IInv
    <3> QED BY <3>1, <1>1, <1>2 DEF KindFollows
  <2>2. ASSUME NEW v \in Uploads, v # u PROVE KindFollows(v)'
    <3>1. KindFollows(v)
      BY DEF IInv
    <3> QED BY <3>1, <2>2, <1>1 DEF KindFollows
  <2> QED BY <2>1, <2>2
<1>9. RowsFollow'
  BY <1>1, <1>3 DEF IInv, RowsFollow
<1>10. \A v \in Uploads : OldFollows(v)'
  <2> SUFFICES ASSUME NEW v \in Uploads PROVE OldFollows(v)'
    OBVIOUS
  <2>1. OldFollows(v)
    BY DEF IInv
  <2>2. /\ upload'[v].old = upload[v].old /\ upload'[v].place = upload[v].place
        /\ upload'[v].image = upload[v].image /\ row' = row
    BY <1>1
  <2> QED BY <2>1, <2>2, <1>3, <1>4, <1>5 DEF OldFollows, Place, Committed
<1>11. Exclusive'
  BY <1>1, <1>4 DEF IInv, Exclusive
<1>12. MissingOnlyUnheard'
  <2> SUFFICES ASSUME NEW s \in Places, row[s] # None PROVE row[s] \in stored' \cup unheard
    BY DEF MissingOnlyUnheard
  <2>1. row[s] \in Images /\ row[s] \in stored \cup unheard
    BY RowPlace DEF IInv, MissingOnlyUnheard
  <2>2. row[s] = u => u \in unheard
    BY <1>2, Fresh DEF Committed
  <2> QED BY <2>1, <2>2
<1>13. ProductFilesAccounted'
  <2> SUFFICES ASSUME NEW f \in temporary' \cup stored', Place(f)' \notin Logos
               PROVE  Owned(f)' \/ Replaced(f)'
    BY DEF ProductFilesAccounted
  <2>1. f \in Images
    BY DEF Images
  <2>2. CASE f = u
    BY <2>2, <1>1 DEF Owned, Running
  <2>3. CASE f # u
    <3>1. Place(f)' = Place(f) /\ f \in temporary \cup stored
      BY <2>1, <2>3, <1>5
    <3>2. Owned(f) \/ Replaced(f)
      BY <3>1 DEF IInv, ProductFilesAccounted
    <3>3. Owned(f) => Owned(f)'
      BY <2>3, <3>1, <1>1 DEF Owned
    <3>4. Replaced(f) => Replaced(f)'
      <4> SUFFICES ASSUME NEW v \in Uploads, upload[v].old = f,
                          upload[v].phase \in {"replaced", "left"} \/ v \in unheard
                   PROVE  Replaced(f)'
        BY DEF Replaced
      <4>1. v \in unheard \/ v # u
        BY <1>2
      <4> QED BY <4>1, <1>1 DEF Replaced
    <3> QED BY <3>2, <3>3, <3>4
  <2> QED BY <2>2, <2>3
<1> QED BY <1>6, <1>7, <1>8, <1>9, <1>10, <1>11, <1>12, <1>13 DEF IInv

(* Taking the lock keeps the invariant: nobody else has the row, and the old image is
   the one it has now. *)
LEMMA LockStep ==
    ASSUME IInv, NEW u \in Uploads, Lock(u)
    PROVE  IInv'
<1> USE PlaceAssumption, NameAssumption
<1> DEFINE r == [upload[u] EXCEPT !.phase = "locked", !.old = row[upload[u].place]]
<1>0. upload[u] \in Request /\ upload[u].place \in Places /\ row[upload[u].place] # None
      /\ upload[u].phase = "prepared" /\ upload[u].kind = "update"
  BY DEF IInv, TypeOK, KindFollows, Lock
<1>1. /\ r \in Request /\ r.phase = "locked" /\ r.kind = upload[u].kind
      /\ r.place = upload[u].place /\ r.image = upload[u].image
      /\ r.old = row[upload[u].place]
  BY <1>0 DEF IInv, TypeOK, Request, Running
<1>2. upload' = [upload EXCEPT ![u] = r]
  BY DEF Lock, OldWhenLocked, IInv, TypeOK
<1> HIDE DEF r
<1>3. /\ upload' \in [Uploads -> Request] /\ upload'[u] = r
      /\ \A v \in Uploads : v # u => upload'[v] = upload[v]
      /\ \A v \in Uploads :
            /\ upload'[v].kind = upload[v].kind /\ upload'[v].place = upload[v].place
            /\ upload'[v].image = upload[v].image
      /\ UNCHANGED <<row, temporary, stored, unheard, failures>>
  BY ZenonT(60), <1>1, <1>2 DEF IInv, TypeOK, Lock
<1>4. u \notin unheard
  BY <1>0 DEF IInv, KindFollows
<1>5. ~Committed(u) /\ ~Committed(u)' /\ \A v \in Uploads : Committed(v)' <=> Committed(v)
  BY <1>0, <1>1, <1>3, <1>4 DEF Committed, Written
<1>6. \A v \in Uploads : v # u => (Holds(v)' <=> Holds(v))
  BY <1>3 DEF Holds
<1>7. \A f \in Images : Place(f)' = Place(f)
  BY <1>3 DEF Place, Images
<1>8. TypeOK'
  BY <1>3 DEF IInv, TypeOK
<1>9. \A v \in Uploads : FilesFollow(v)'
  BY <1>0, <1>1, <1>3 DEF IInv, FilesFollow, Written
<1>10. \A v \in Uploads : KindFollows(v)'
  BY <1>0, <1>1, <1>3, <1>4 DEF IInv, KindFollows
<1>11. RowsFollow'
  BY <1>3, <1>5 DEF IInv, RowsFollow
<1>12. \A v \in Uploads : OldFollows(v)'
  <2>1. OldFollows(u)'
    <3>1. /\ upload'[u].old = row[upload[u].place] /\ upload'[u].place = upload[u].place
          /\ row' = row
      BY <1>1, <1>3
    <3>2. ASSUME NEW f \in Images, f = row[upload[u].place]
          PROVE  Place(f)' = upload[u].place /\ (f \in Uploads => Committed(f)')
      BY <1>0, <3>2, <1>5, <1>7, RowPlace DEF IInv, RowsFollow
    <3> QED BY <1>0, <3>1, <3>2, <1>5 DEF OldFollows, Place, Committed
  <2>2. ASSUME NEW v \in Uploads, v # u PROVE OldFollows(v)'
    <3>1. OldFollows(v) /\ upload'[v] = upload[v] /\ row' = row
      BY <1>3, <2>2 DEF IInv
    <3> QED BY <2>2, <3>1, <1>5, <1>6, <1>7 DEF OldFollows, Place, Committed
  <2> QED BY <2>1, <2>2
<1>13. Exclusive'
  <2>1. \A v \in Uploads \ {u} : upload[v].place = upload[u].place => ~Holds(v)
    BY DEF Lock, Free
  <2> QED BY <2>1, <1>3, <1>6 DEF IInv, Exclusive
<1>14. MissingOnlyUnheard'
  BY <1>3 DEF IInv, MissingOnlyUnheard
<1>15. ProductFilesAccounted'
  <2> SUFFICES ASSUME NEW f \in temporary \cup stored, Place(f)' \notin Logos
               PROVE  Owned(f)' \/ Replaced(f)'
    BY <1>3 DEF ProductFilesAccounted
  <2>1. f \in Images
    BY DEF IInv, TypeOK, Images
  <2>2. Place(f)' = Place(f)
    BY <2>1, <1>7
  <2>3. Owned(f) \/ Replaced(f)
    BY <2>2 DEF IInv, ProductFilesAccounted
  <2>4. Owned(f) => Owned(f)'
    BY <2>2, <1>1, <1>3 DEF Owned, Running
  <2>5. Replaced(f) => Replaced(f)'
    <3> SUFFICES ASSUME NEW v \in Uploads, upload[v].old = f,
                        upload[v].phase \in {"replaced", "left"} \/ v \in unheard
                 PROVE  Replaced(f)'
      BY DEF Replaced
    <3>1. v # u
      BY <1>0, <1>4
    <3> QED BY <3>1, <1>3 DEF Replaced
  <2> QED BY <2>3, <2>4, <2>5
<1> QED BY <1>8, <1>9, <1>10, <1>11, <1>12, <1>13, <1>14, <1>15 DEF IInv

(* A commit keeps the invariant, whether its answer arrives or not: the image that the
   row had is the one the request will remove, unless it is a logo. *)
LEMMA CommitStep ==
    ASSUME IInv, NEW u \in Uploads, Ready(u), NameFree(u),
           NEW p \in {"replaced", "accepted", "aborted"}, Reach(u, p),
           row' = RowWritten(u), UNCHANGED <<temporary, stored, failures>>,
           unheard' = IF p = "aborted" THEN unheard \cup {u} ELSE unheard,
           p = "replaced" => upload[u].image /\ upload[u].kind # "create",
           p = "accepted" => ~upload[u].image \/ upload[u].kind = "create"
    PROVE  IInv'
<1> USE PlaceAssumption, NameAssumption
<1> DEFINE s == upload[u].place
<1>0. /\ upload[u].phase \in {"renamed", "locked"}
      /\ upload[u].phase = "locked" => ~upload[u].image
      /\ upload[u].image => upload[u].phase = "renamed" /\ u \in stored /\ u \notin temporary
      /\ s \in Places /\ upload[u].kind \in {"create", "update", "logo"}
      /\ u \notin unheard /\ upload[u] \in Request
  <2>1. KindFollows(u) /\ FilesFollow(u) /\ upload[u] \in Request
    BY DEF IInv, TypeOK
  <2> QED BY <2>1 DEF Ready, KindFollows, FilesFollow, IInv, TypeOK, Request
<1>1. /\ upload' \in [Uploads -> Request] /\ upload'[u].phase = p
      /\ \A v \in Uploads : v # u => upload'[v] = upload[v]
      /\ \A v \in Uploads :
            /\ upload'[v].kind = upload[v].kind /\ upload'[v].place = upload[v].place
            /\ upload'[v].image = upload[v].image /\ upload'[v].old = upload[v].old
  <2>1. p \in {"refused", "lost"} \cup Running \cup Written
    BY DEF Running, Written
  <2> QED BY <2>1, Moved DEF IInv
<1>2. ~Committed(u) /\ Committed(u)' /\ \A v \in Uploads : v # u => (Committed(v)' <=> Committed(v))
  BY <1>0, <1>1 DEF Committed, Written
<1>3. /\ \A v \in Uploads : upload[v].old # u
      /\ \A t \in Places : row[t] # u
  BY <1>2, Fresh
<1>4. /\ row' \in [Places -> Images \cup {None}]
      /\ upload[u].image => row'[s] = u
      /\ ~upload[u].image => row'[s] = row[s]
      /\ \A t \in Places : t # s => row'[t] = row[t]
      /\ \A t \in Places : row[t] # None => row'[t] # None
  BY <1>0 DEF RowWritten, IInv, TypeOK, Images
<1> HIDE DEF s
<1>5. \A f \in Images : Place(f)' = Place(f)
  BY <1>1 DEF Place, Images
<1>6. ~Holds(u)' /\ \A v \in Uploads : v # u => (Holds(v)' <=> Holds(v))
  BY <1>1 DEF Holds
<1>7. \A v \in Uploads : v # u /\ Holds(v) /\ upload[v].place = s => ~upload[u].image
  <2> SUFFICES ASSUME NEW v \in Uploads, v # u, Holds(v), upload[v].place = s, upload[u].image
               PROVE  FALSE
    OBVIOUS
  <2>1. upload[v].kind = "update" /\ s \in Products /\ row[s] # None
    BY DEF Holds, IInv, KindFollows
  <2>2. CASE upload[u].kind = "create"
    BY <2>1, <2>2 DEF NameFree, s
  <2>3. CASE upload[u].kind = "update"
    BY <2>3, <1>0 DEF IInv, Exclusive, Holds, s
  <2>4. CASE upload[u].kind = "logo"
    BY <2>1, <2>4 DEF IInv, KindFollows, s
  <2> QED BY <2>2, <2>3, <2>4, <1>0
<1>8. TypeOK'
  BY <1>1, <1>4 DEF IInv, TypeOK
<1>9. \A v \in Uploads : FilesFollow(v)'
  <2>1. FilesFollow(u)'
    <3>1. FilesFollow(u)
      BY DEF IInv
    <3>2. u \notin temporary /\ (~upload[u].image => u \notin stored)
      BY <3>1, <1>0 DEF FilesFollow
    <3> QED BY <3>1, <3>2, <1>1 DEF FilesFollow, Written
  <2>2. ASSUME NEW v \in Uploads, v # u PROVE FilesFollow(v)'
    BY <2>2, <1>1 DEF IInv, FilesFollow
  <2> QED BY <2>1, <2>2
<1>10. \A v \in Uploads : KindFollows(v)'
  <2>1. KindFollows(u)'
    <3>1. KindFollows(u)
      BY DEF IInv
    <3> QED BY <3>1, <1>0, <1>1, <1>4 DEF KindFollows, s
  <2>2. ASSUME NEW v \in Uploads, v # u PROVE KindFollows(v)'
    <3>1. KindFollows(v) /\ upload'[v] = upload[v] /\ (v \in unheard' <=> v \in unheard)
      BY <2>2, <1>1 DEF IInv
    <3>2. upload[v].kind = "update" => upload[v].place \in Places
      BY <3>1 DEF KindFollows, Places
    <3> QED BY <3>1, <3>2, <1>4 DEF KindFollows
  <2> QED BY <2>1, <2>2
<1>11. RowsFollow'
  <2>1. ASSUME NEW t \in Places PROVE row'[t] \in Places => row'[t] = t
    BY <1>4 DEF IInv, RowsFollow, TypeOK
  <2>2. ASSUME NEW t \in Places, NEW v \in Uploads, row'[t] = v
        PROVE  upload'[v].place = t /\ Committed(v)'
    <3>1. CASE v = u
      BY <3>1, <2>2, <1>1, <1>2, <1>3, <1>4 DEF s
    <3>2. CASE v # u
      BY <3>2, <2>2, <1>1, <1>2, <1>4 DEF IInv, RowsFollow
    <3> QED BY <3>1, <3>2
  <2> QED BY <2>1, <2>2 DEF RowsFollow
<1>12. \A v \in Uploads : OldFollows(v)'
  <2> SUFFICES ASSUME NEW v \in Uploads PROVE OldFollows(v)'
    OBVIOUS
  <2>1. OldFollows(v)
    BY DEF IInv
  <2>2. /\ upload'[v].old = upload[v].old /\ upload'[v].place = upload[v].place
        /\ upload'[v].image = upload[v].image /\ upload[v].old # u
        /\ upload[v].old \in Images \cup {None}
    BY <1>1, <1>3 DEF IInv, TypeOK, Request
  <2>3. upload[v].old \in Images =>
           /\ upload[v].place \in Places
           /\ \A f \in Images : f = upload[v].old => Place(f)' = upload[v].place
           /\ upload[v].old \in Uploads => Committed(upload[v].old)
    BY <2>1, <1>5 DEF OldFollows
  <2>4. upload[v].old # None /\ Committed(v)' /\ upload[v].image =>
           row'[upload[v].place] # upload[v].old
    <3> SUFFICES ASSUME upload[v].old # None, Committed(v)', upload[v].image
                 PROVE  row'[upload[v].place] # upload[v].old
      OBVIOUS
    <3>1. upload[v].place \in Places
      BY <2>2, <2>3
    <3>2. CASE upload[v].place = s /\ upload[u].image
      BY <3>2, <2>2, <1>4
    <3>3. CASE ~(upload[v].place = s /\ upload[u].image)
      <4>1. v # u /\ row'[upload[v].place] = row[upload[v].place]
        BY <3>1, <3>3, <1>4 DEF s
      <4> QED BY <4>1, <2>1, <1>2 DEF OldFollows
    <3> QED BY <3>2, <3>3
  <2>5. Holds(v)' => row'[upload[v].place] = upload[v].old
    <3> SUFFICES ASSUME Holds(v)' PROVE row'[upload[v].place] = upload[v].old
      OBVIOUS
    <3>1. v # u /\ Holds(v)
      BY <1>6
    <3>2. row[upload[v].place] = upload[v].old /\ upload[v].place \in Places
      BY <3>1, <2>1 DEF OldFollows, Holds, IInv, KindFollows
    <3>3. row'[upload[v].place] = row[upload[v].place]
      BY <3>1, <3>2, <1>4, <1>7
    <3> QED BY <3>2, <3>3
  <2> QED BY <2>2, <2>3, <2>4, <2>5, <1>2 DEF OldFollows, Place, Committed
<1>13. Exclusive'
  BY <1>1, <1>6 DEF IInv, Exclusive
<1>14. MissingOnlyUnheard'
  <2> SUFFICES ASSUME NEW t \in Places, row'[t] # None PROVE row'[t] \in stored \cup unheard'
    BY DEF MissingOnlyUnheard
  <2>1. CASE row'[t] = u
    BY <2>1, <1>0, <1>3, <1>4
  <2>2. CASE row'[t] # u
    BY <2>2, <1>4 DEF IInv, MissingOnlyUnheard
  <2> QED BY <2>1, <2>2
<1>15. ProductFilesAccounted'
  <2> SUFFICES ASSUME NEW f \in temporary \cup stored, Place(f)' \notin Logos
               PROVE  Owned(f)' \/ Replaced(f)'
    BY DEF ProductFilesAccounted
  <2>1. f \in Images /\ Place(f)' = Place(f)
    BY <1>5 DEF IInv, TypeOK, Images
  <2>2. CASE f = u
    <3>1. upload[u].image
      BY <2>2 DEF IInv, FilesFollow
    <3>2. Place(f)' = s
      BY <2>1, <2>2 DEF Place, Images, s
    <3> QED BY <2>2, <3>1, <3>2, <1>4 DEF Owned
  <2>3. CASE f # u
    <3>1. Owned(f) \/ Replaced(f)
      BY <2>1 DEF IInv, ProductFilesAccounted
    <3>2. Replaced(f) => Replaced(f)'
      <4> SUFFICES ASSUME NEW v \in Uploads, upload[v].old = f,
                          upload[v].phase \in {"replaced", "left"} \/ v \in unheard
                   PROVE  Replaced(f)'
        BY DEF Replaced
      <4>1. v # u
        BY <1>0
      <4> QED BY <4>1, <1>1 DEF Replaced
    <3>3. CASE f \in Uploads /\ upload[f].phase \in Running \cup {"lost"}
      BY <2>3, <3>3, <1>1 DEF Owned
    <3>4. CASE row[Place(f)] = f
      <4>1. CASE Place(f) = s /\ upload[u].image
        <5>1. upload[u].kind = "update"
          <6>1. upload[u].kind # "create"
            BY <3>4, <4>1, <2>1, NameAssumption DEF NameFree, s, Images
          <6>2. upload[u].kind # "logo"
            BY <4>1, <2>1 DEF IInv, KindFollows, s
          <6> QED BY <6>1, <6>2, <1>0
        <5>2. Holds(u)
          BY <5>1, <1>0 DEF Holds
        <5>3. upload[u].old = f
          BY <3>4, <4>1, <5>2 DEF IInv, OldFollows, s
        <5>4. upload'[u].phase = "replaced" \/ u \in unheard'
          BY <5>1, <4>1, <1>1
        <5> QED BY <5>3, <5>4, <1>1 DEF Replaced
      <4>2. CASE ~(Place(f) = s /\ upload[u].image)
        <5>1. row[Place(f)] = f /\ row'[Place(f)] = f
          <6>1. CASE Place(f) \in Places
            BY <6>1, <3>4, <4>2, <1>4
          <6>2. CASE Place(f) \notin Places
            <7>1. f \in Uploads /\ Place(f) = None
              BY <6>2, <2>1 DEF Place, Images, IInv, TypeOK, Request
            <7>2. upload[f].phase = "idle"
              BY <7>1, <6>2 DEF Place, IInv, KindFollows
            <7> QED BY <7>1, <7>2 DEF IInv, FilesFollow
          <6> QED BY <6>1, <6>2
        <5> QED BY <5>1, <2>1 DEF Owned
      <4> QED BY <4>1, <4>2
    <3> QED BY <3>1, <3>2, <3>3, <3>4 DEF Owned
  <2> QED BY <2>2, <2>3
<1> QED BY <1>8, <1>9, <1>10, <1>11, <1>12, <1>13, <1>14, <1>15 DEF IInv

(* Removing the old image keeps the invariant: no row names it any more. *)
LEMMA RemoveStep ==
    ASSUME IInv, NEW u \in Uploads, RemoveOld(u)
    PROVE  IInv'
<1> USE PlaceAssumption, NameAssumption
<1> DEFINE g == upload[u].old
<1>1. /\ upload' \in [Uploads -> Request] /\ upload'[u].phase = "accepted"
      /\ \A v \in Uploads : v # u => upload'[v] = upload[v]
      /\ \A v \in Uploads :
            /\ upload'[v].kind = upload[v].kind /\ upload'[v].place = upload[v].place
            /\ upload'[v].image = upload[v].image /\ upload'[v].old = upload[v].old
      /\ UNCHANGED <<row, temporary, unheard, failures>> /\ stored' = stored \ {g}
      /\ upload[u].phase = "replaced"
  <2>1. "accepted" \in {"refused", "lost"} \cup Running \cup Written
    BY DEF Written
  <2> QED BY <2>1, Moved DEF IInv, RemoveOld
<1>2. \A v \in Uploads : Committed(v)' <=> Committed(v)
  BY <1>1 DEF Committed, Written
<1>3. \A v \in Uploads : Holds(v)' <=> Holds(v)
  BY <1>1 DEF Holds
<1>4. \A f \in Images : Place(f)' = Place(f)
  BY <1>1 DEF Place, Images
<1>5. g \in Uploads => upload[g].phase \notin {"renamed"}
  <2> SUFFICES ASSUME g \in Uploads PROVE upload[g].phase # "renamed"
    OBVIOUS
  <2>1. Committed(g)
    BY DEF IInv, OldFollows, Images
  <2> QED BY <2>1 DEF Committed, Written, IInv, KindFollows
<1>6. \A t \in Places : row[t] # None => row[t] # g
  <2> SUFFICES ASSUME NEW t \in Places, row[t] # None, row[t] = g PROVE FALSE
    OBVIOUS
  <2>1. g \in Images /\ Place(g) = t
    BY RowPlace DEF IInv
  <2>2. OldFollows(u) /\ KindFollows(u) /\ Committed(u)
    BY <1>1 DEF IInv, Committed, Written
  <2>3. t = upload[u].place
    BY <2>1, <2>2 DEF OldFollows
  <2> QED BY <1>1, <2>2, <2>3 DEF OldFollows, KindFollows
<1> HIDE DEF g
<1>7. TypeOK'
  BY <1>1 DEF IInv, TypeOK
<1>8. \A v \in Uploads : FilesFollow(v)'
  <2>1. FilesFollow(u)'
    <3>1. FilesFollow(u)
      BY DEF IInv
    <3> QED BY <3>1, <1>1 DEF FilesFollow, Written
  <2>2. ASSUME NEW v \in Uploads, v # u PROVE FilesFollow(v)'
    <3>1. FilesFollow(v)
      BY DEF IInv
    <3> QED BY <2>2, <3>1, <1>1, <1>5 DEF FilesFollow
  <2> QED BY <2>1, <2>2
<1>9. \A v \in Uploads : KindFollows(v)'
  <2>1. KindFollows(u)'
    <3>1. KindFollows(u)
      BY DEF IInv
    <3> QED BY <3>1, <1>1 DEF KindFollows
  <2>2. ASSUME NEW v \in Uploads, v # u PROVE KindFollows(v)'
    BY <2>2, <1>1 DEF IInv, KindFollows
  <2> QED BY <2>1, <2>2
<1>10. RowsFollow'
  BY <1>1, <1>2 DEF IInv, RowsFollow
<1>11. \A v \in Uploads : OldFollows(v)'
  <2> SUFFICES ASSUME NEW v \in Uploads PROVE OldFollows(v)'
    OBVIOUS
  <2>1. OldFollows(v)
    BY DEF IInv
  <2>2. /\ upload'[v].old = upload[v].old /\ upload'[v].place = upload[v].place
        /\ upload'[v].image = upload[v].image /\ row' = row
    BY <1>1
  <2> QED BY <2>1, <2>2, <1>2, <1>3, <1>4 DEF OldFollows, Place, Committed
<1>12. Exclusive'
  BY <1>1, <1>3 DEF IInv, Exclusive
<1>13. MissingOnlyUnheard'
  BY <1>1, <1>6 DEF IInv, MissingOnlyUnheard
<1>14. ProductFilesAccounted'
  <2> SUFFICES ASSUME NEW f \in temporary \cup (stored \ {g}), Place(f)' \notin Logos
               PROVE  Owned(f)' \/ Replaced(f)'
    BY <1>1 DEF ProductFilesAccounted
  <2>1. f \in Images /\ Place(f)' = Place(f)
    BY <1>4 DEF IInv, TypeOK, Images
  <2>2. Owned(f) \/ Replaced(f)
    BY <2>1 DEF IInv, ProductFilesAccounted
  <2>3. Owned(f) => Owned(f)'
    BY <2>1, <1>1 DEF Owned, Running
  <2>4. Replaced(f) => Owned(f) \/ Replaced(f)'
    <3> SUFFICES ASSUME NEW v \in Uploads, upload[v].old = f,
                        upload[v].phase \in {"replaced", "left"} \/ v \in unheard
                 PROVE  Owned(f) \/ Replaced(f)'
      BY DEF Replaced
    <3>1. CASE v # u
      BY <3>1, <1>1 DEF Replaced
    <3>2. CASE v = u
      <4>1. f = g /\ f \in temporary
        BY <3>2 DEF g
      <4>2. f \in Uploads /\ Committed(f)
        BY <4>1 DEF IInv, TypeOK, OldFollows, Images, g
      <4>3. f \in unheard
        BY <4>1, <4>2 DEF Committed, IInv, FilesFollow
      <4>4. upload[f].phase \in {"aborted", "lost"}
        BY <4>1, <4>2, <4>3 DEF IInv, KindFollows, FilesFollow
      <4> QED BY <4>2, <4>4 DEF Owned, Running
    <3> QED BY <3>1, <3>2
  <2> QED BY <2>2, <2>3, <2>4
<1> QED BY <1>7, <1>8, <1>9, <1>10, <1>11, <1>12, <1>13, <1>14 DEF IInv

(* A crash keeps the invariant: it moves no file and writes no row. *)
LEMMA CrashStep ==
    ASSUME IInv, Crash
    PROVE  IInv'
<1> USE PlaceAssumption, NameAssumption
<1>1. /\ UNCHANGED <<row, temporary, stored, unheard>> /\ failures' \in 0..MaxFailures
      /\ upload' = [u \in Uploads |->
            CASE upload[u].phase \in Running -> [upload[u] EXCEPT !.phase = "lost"]
              [] upload[u].phase = "replaced" -> [upload[u] EXCEPT !.phase = "left"]
              [] OTHER -> upload[u]]
  BY BoundAssumption DEF Crash, IInv, TypeOK
<1>2. ASSUME NEW v \in Uploads
      PROVE  /\ upload'[v] \in Request
             /\ upload'[v].kind = upload[v].kind /\ upload'[v].place = upload[v].place
             /\ upload'[v].image = upload[v].image /\ upload'[v].old = upload[v].old
             /\ upload'[v].phase = CASE upload[v].phase \in Running -> "lost"
                                      [] upload[v].phase = "replaced" -> "left"
                                      [] OTHER -> upload[v].phase
  <2>1. upload[v] \in Request
    BY DEF IInv, TypeOK
  <2>2. CASE upload[v].phase \in Running
    BY <1>1, <2>1, <2>2 DEF Request, Running, Written
  <2>3. CASE upload[v].phase = "replaced"
    BY <1>1, <2>1, <2>3 DEF Request, Running, Written
  <2>4. CASE upload[v].phase \notin Running /\ upload[v].phase # "replaced"
    BY <1>1, <2>1, <2>4
  <2> QED BY <2>2, <2>3, <2>4
<1>3. \A v \in Uploads : Committed(v)' <=> Committed(v)
  BY <1>1, <1>2 DEF Committed, Running, Written
<1>4. \A v \in Uploads : ~Holds(v)'
  BY <1>2 DEF Holds, Running
<1>5. \A f \in Images : Place(f)' = Place(f)
  BY <1>2 DEF Place, Images
<1>6. TypeOK'
  <2>1. upload' \in [Uploads -> Request]
    BY <1>1, <1>2
  <2> QED BY <1>1, <2>1 DEF IInv, TypeOK
<1>7. \A v \in Uploads : FilesFollow(v)'
  <2> SUFFICES ASSUME NEW v \in Uploads PROVE FilesFollow(v)'
    OBVIOUS
  <2>1. FilesFollow(v)
    BY DEF IInv
  <2> QED BY <2>1, <1>1, <1>2 DEF FilesFollow, Running, Written
<1>8. \A v \in Uploads : KindFollows(v)'
  <2> SUFFICES ASSUME NEW v \in Uploads PROVE KindFollows(v)'
    OBVIOUS
  <2>1. KindFollows(v)
    BY DEF IInv
  <2> QED BY <2>1, <1>1, <1>2 DEF KindFollows, Running
<1>9. RowsFollow'
  BY <1>1, <1>2, <1>3 DEF IInv, RowsFollow
<1>10. \A v \in Uploads : OldFollows(v)'
  <2> SUFFICES ASSUME NEW v \in Uploads PROVE OldFollows(v)'
    OBVIOUS
  <2>1. OldFollows(v)
    BY DEF IInv
  <2>2. /\ upload'[v].old = upload[v].old /\ upload'[v].place = upload[v].place
        /\ upload'[v].image = upload[v].image /\ row' = row
    BY <1>1, <1>2
  <2> QED BY <2>1, <2>2, <1>3, <1>4, <1>5 DEF OldFollows, Place, Committed
<1>11. Exclusive'
  BY <1>4 DEF Exclusive
<1>12. MissingOnlyUnheard'
  BY <1>1 DEF IInv, MissingOnlyUnheard
<1>13. ProductFilesAccounted'
  <2> SUFFICES ASSUME NEW f \in temporary \cup stored, Place(f)' \notin Logos
               PROVE  Owned(f)' \/ Replaced(f)'
    BY <1>1 DEF ProductFilesAccounted
  <2>1. f \in Images /\ Place(f)' = Place(f)
    BY <1>5 DEF IInv, TypeOK, Images
  <2>2. Owned(f) \/ Replaced(f)
    BY <2>1 DEF IInv, ProductFilesAccounted
  <2>3. Owned(f) => Owned(f)'
    BY <2>1, <1>1, <1>2 DEF Owned, Running
  <2>4. Replaced(f) => Replaced(f)'
    <3> SUFFICES ASSUME NEW v \in Uploads, upload[v].old = f,
                        upload[v].phase \in {"replaced", "left"} \/ v \in unheard
                 PROVE  Replaced(f)'
      BY DEF Replaced
    <3>1. upload'[v].phase \in {"replaced", "left"} \/ v \in unheard
      BY <1>2 DEF Running
    <3> QED BY <3>1, <1>1, <1>2 DEF Replaced
  <2> QED BY <2>2, <2>3, <2>4
<1> QED BY <1>6, <1>7, <1>8, <1>9, <1>10, <1>11, <1>12, <1>13 DEF IInv

-----------------------------------------------------------------------------
(* Every step keeps the invariant. *)
LEMMA StepInv == IInv /\ [Next]_vars => IInv'
<1> SUFFICES ASSUME IInv, [Next]_vars PROVE IInv'
  OBVIOUS
<1> USE PlaceAssumption, NameAssumption, BoundAssumption
<1>1. ASSUME NEW u \in Uploads, NEW s \in Places, CreateProduct(u, s) PROVE IInv'
  BY <1>1, BeginStep DEF CreateProduct
<1>2. ASSUME NEW u \in Uploads, NEW s \in Places, NEW image \in BOOLEAN, UpdateProduct(u, s, image)
      PROVE  IInv'
  BY <1>2, BeginStep DEF UpdateProduct
<1>3. ASSUME NEW u \in Uploads, NEW s \in Places, UpdateShopLogo(u, s) PROVE IInv'
  BY <1>3, BeginStep DEF UpdateShopLogo
<1>4. ASSUME NEW u \in Uploads, Prepare(u) PROVE IInv'
  <2>1. FilesFollow(u) /\ KindFollows(u) /\ upload[u].phase = "read" /\ TypeOK
    BY <1>4 DEF IInv, Prepare
  <2>2. CASE Reach(u, "refused") /\ UNCHANGED temporary
    BY <1>4, <2>1, <2>2, RowKept DEF Prepare, TypeOK, FilesFollow, KindFollows, Running
  <2>3. CASE /\ Reach(u, "prepared")
             /\ temporary' = IF upload[u].image THEN temporary \cup {u} ELSE temporary
    BY <1>4, <2>1, <2>3, RowKept DEF Prepare, TypeOK, FilesFollow, KindFollows, Running
  <2> QED BY <1>4, <2>2, <2>3 DEF Prepare
<1>5. ASSUME NEW u \in Uploads, Lock(u) PROVE IInv'
  BY <1>5, LockStep
<1>6. ASSUME NEW u \in Uploads, Rename(u) PROVE IInv'
  <2>1. FilesFollow(u) /\ KindFollows(u) /\ TypeOK /\ upload[u].phase \in {"prepared", "locked"}
    BY <1>6 DEF IInv, Rename
  <2> QED BY <1>6, <2>1, RowKept DEF Rename, TypeOK, KindFollows, Running, Images
<1>7. ASSUME NEW u \in Uploads, Commit(u) PROVE IInv'
  <2>1. CASE upload[u].image /\ upload[u].kind # "create"
    BY <1>7, <2>1, CommitStep DEF Commit
  <2>2. CASE ~(upload[u].image /\ upload[u].kind # "create")
    BY <1>7, <2>2, CommitStep DEF Commit
  <2> QED BY <2>1, <2>2
<1>8. ASSUME NEW u \in Uploads, CommitUnheard(u) PROVE IInv'
  BY <1>8, CommitStep DEF CommitUnheard
<1>9. ASSUME NEW u \in Uploads, Refuse(u) PROVE IInv'
  <2>1. FilesFollow(u) /\ KindFollows(u) /\ TypeOK /\ upload[u].phase \in {"renamed", "locked"}
    BY <1>9 DEF IInv, Refuse, Ready
  <2> QED BY <1>9, <2>1, RowKept DEF Refuse, TypeOK, FilesFollow, KindFollows, Running
<1>10. ASSUME NEW u \in Uploads, RemoveOld(u) PROVE IInv'
  BY <1>10, RemoveStep
<1>11. ASSUME NEW u \in Uploads, Discard(u) PROVE IInv'
  <2>1. FilesFollow(u) /\ KindFollows(u) /\ TypeOK /\ upload[u].phase = "aborted"
    BY <1>11 DEF IInv, Discard
  <2> QED BY <1>11, <2>1, RowKept DEF Discard, TypeOK, KindFollows, Running
<1>12. ASSUME NEW u \in Uploads, Fail(u) PROVE IInv'
  <2>1. FilesFollow(u) /\ KindFollows(u) /\ TypeOK /\ upload[u].phase \in {"prepared", "locked", "renamed"}
    BY <1>12 DEF IInv, Fail
  <2> QED BY <1>12, <2>1, RowKept DEF Fail, TypeOK, FilesFollow, KindFollows, Running
<1>13. CASE Crash
  BY <1>13, CrashStep
<1>14. CASE UNCHANGED vars
  <2>1. /\ row' = row /\ temporary' = temporary /\ stored' = stored /\ upload' = upload
        /\ unheard' = unheard /\ failures' = failures
    BY <1>14 DEF vars
  <2> QED BY <2>1 DEF IInv, TypeOK, FilesFollow, KindFollows, RowsFollow, OldFollows, Exclusive,
                      Holds, Committed, Place, MissingOnlyUnheard, ProductFilesAccounted, Owned,
                      Replaced
<1> QED BY <1>1, <1>2, <1>3, <1>4, <1>5, <1>6, <1>7, <1>8, <1>9, <1>10, <1>11, <1>12, <1>13, <1>14
        DEF Next

(* The invariant holds in every reachable state. *)
THEOREM Inductive == Spec => []IInv
BY InitInv, StepInv, PTL DEF Spec

(* Types are kept, and no file is both temporary and stored. *)
THEOREM TypeCorrect == Spec => []TypeOK
<1>1. IInv => TypeOK
  BY DEF IInv
<1> QED BY <1>1, Inductive, PTL

(* No row of updateProduct, createProduct or updateShopLogo names an image that is not
   there, unless the answer of its commit was lost. *)
THEOREM RowsHaveImages == Spec => []MissingOnlyUnheard
<1>1. IInv => MissingOnlyUnheard
  BY DEF IInv
<1> QED BY <1>1, Inductive, PTL

(* Replacements of a product's image that overlap leave no file behind. *)
THEOREM NoProductFileLeft == Spec => []ProductFilesAccounted
<1>1. IInv => ProductFilesAccounted
  BY DEF IInv
<1> QED BY <1>1, Inductive, PTL
=============================================================================
