----------------------------- MODULE ProductImages -----------------------------
(* The images of products and the logos of shops (products.go, auth.go), which can be
   replaced, unlike receipts.  A new image has its final name before its row is
   written; the old one is removed after that.  An update of a product finds out the
   old image under the row's lock.  The upload of a logo takes the one the middleware
   has read and locks nothing.  How an image is prepared and given up is in
   ReceiptUpload, with the commit whose answer is lost. *)
EXTENDS FiniteSets, Naturals

CONSTANTS
    Uploads,      \* requests, also the names of their images
    Products,     \* products, told apart by the names they are created with
    Logos,        \* shops with a logo
    First,        \* the products and shops that have an image at first
    None,         \* no image
    MaxFailures,  \* bound: errors and crashes
    MaxUnheard    \* bound: commits whose answer is lost

Places == Products \cup Logos

ASSUME PlaceAssumption == Products \cap Logos = {} /\ First \subseteq Places
ASSUME NameAssumption == Uploads \cap Places = {} /\ None \notin Uploads \cup Places
ASSUME BoundAssumption == MaxFailures \in Nat /\ MaxUnheard \in Nat

VARIABLES
    row,        \* the image path in each row, None without one
    temporary,  \* uploads whose .upload-* file exists
    stored,     \* images whose file exists under its final name
    upload,     \* the requests
    unheard,    \* uploads whose commit was not acknowledged
    failures    \* failures so far

vars == <<row, temporary, stored, upload, unheard, failures>>

-----------------------------------------------------------------------------

\* A place stands for its first image.
Images == Uploads \cup Places

Running == {"read", "prepared", "locked", "renamed", "aborted"}
Written == {"replaced", "accepted", "left"}

Request == [phase : {"idle", "refused", "lost"} \cup Running \cup Written,
            kind : {"none", "create", "update", "logo"}, place : Places \cup {None},
            image : BOOLEAN, old : Images \cup {None}]

Idle == [phase |-> "idle", kind |-> "none", place |-> None, image |-> FALSE, old |-> None]

Init ==
    /\ row = [s \in Places |-> IF s \in First THEN s ELSE None]
    /\ temporary = {} /\ stored = First
    /\ upload = [u \in Uploads |-> Idle]
    /\ unheard = {} /\ failures = 0

Reach(u, p) == upload' = [upload EXCEPT ![u].phase = p]

\* What the handler begins with: the product by its id, or the shop.
Begin(u, kind, s, image) ==
    /\ upload[u].phase = "idle"
    /\ upload' = [upload EXCEPT ![u] =
          [phase |-> "read", kind |-> kind, place |-> s, image |-> image, old |-> row[s]]]
    /\ UNCHANGED <<row, temporary, stored, unheard, failures>>

CreateProduct(u, s) == s \in Products /\ Begin(u, "create", s, TRUE)

\* The form leaves the image out unless a new one was cropped.
UpdateProduct(u, s, image) == s \in Products /\ row[s] # None /\ Begin(u, "update", s, image)

UpdateShopLogo(u, s) == s \in Logos /\ Begin(u, "logo", s, TRUE)

\* parseProductInput and prepareImage, or a refusal.
Prepare(u) ==
    /\ upload[u].phase = "read"
    /\ \/ Reach(u, "refused") /\ UNCHANGED temporary
       \/ /\ Reach(u, "prepared")
          /\ temporary' = IF upload[u].image THEN temporary \cup {u} ELSE temporary
    /\ UNCHANGED <<row, stored, unheard, failures>>

-----------------------------------------------------------------------------
(* The transaction *)

\* The row of a product is locked from the first statement to the end.
Holds(u) == upload[u].kind = "update" /\ upload[u].phase \in {"locked", "renamed"}

Free(u) == \A v \in Uploads \ {u} : upload[v].place = upload[u].place => ~Holds(v)

\* Variant: the image that was read before the lock counts as the old one.
OldWhenRead(u) == upload[u].old

\* oldImagePath is read under the lock.
OldWhenLocked(u) == row[upload[u].place]

Lock(u) ==
    /\ upload[u].phase = "prepared" /\ upload[u].kind = "update"
    /\ Free(u)
    /\ upload' = [upload EXCEPT ![u].phase = "locked", ![u].old = OldWhenLocked(u)]
    /\ UNCHANGED <<row, temporary, stored, unheard, failures>>

\* Variant: the temporary file is copied.
CopyToFinal(u) ==
    /\ upload[u].image
    /\ upload[u].phase = IF upload[u].kind = "update" THEN "locked" ELSE "prepared"
    /\ stored' = stored \cup {u}
    /\ Reach(u, "renamed")
    /\ UNCHANGED <<row, temporary, unheard, failures>>

Rename(u) ==
    /\ upload[u].image
    /\ upload[u].phase = IF upload[u].kind = "update" THEN "locked" ELSE "prepared"
    /\ temporary' = temporary \ {u} /\ stored' = stored \cup {u}
    /\ Reach(u, "renamed")
    /\ UNCHANGED <<row, unheard, failures>>

\* An update without an image has nothing to rename.
Ready(u) == upload[u].phase = "renamed" \/ (upload[u].phase = "locked" /\ ~upload[u].image)

\* The unique index on shop and name.
NameFree(u) == upload[u].kind = "create" => row[upload[u].place] = None

RowWritten(u) == IF upload[u].image THEN [row EXCEPT ![upload[u].place] = u] ELSE row

\* The insertion or update, committed.  A new product replaces no image.
Commit(u) ==
    /\ Ready(u) /\ NameFree(u)
    /\ row' = RowWritten(u)
    /\ Reach(u, IF upload[u].image /\ upload[u].kind # "create" THEN "replaced" ELSE "accepted")
    /\ UNCHANGED <<temporary, stored, unheard, failures>>

\* The database commits, and the handler is told of a lost connection.
CommitUnheard(u) ==
    /\ Ready(u) /\ NameFree(u) /\ Cardinality(unheard) < MaxUnheard
    /\ row' = RowWritten(u)
    /\ unheard' = unheard \cup {u}
    /\ Reach(u, "aborted")
    /\ UNCHANGED <<temporary, stored, failures>>

\* The name is taken, by this product or, for an update, by another.
Refuse(u) ==
    /\ Ready(u)
    /\ IF upload[u].kind = "create" THEN ~NameFree(u) ELSE upload[u].kind = "update"
    /\ Reach(u, "aborted")
    /\ UNCHANGED <<row, temporary, stored, unheard, failures>>

-----------------------------------------------------------------------------
(* After the transaction *)

\* Variant: the old image goes as soon as the new one has its name.
RemoveEarly(u) ==
    /\ upload[u].phase \in {"renamed", "replaced"}
    /\ stored' = stored \ {upload[u].old}
    /\ Reach(u, IF upload[u].phase = "renamed" THEN "renamed" ELSE "accepted")
    /\ UNCHANGED <<row, temporary, unheard, failures>>

\* removeProductImage
RemoveOld(u) ==
    /\ upload[u].phase = "replaced"
    /\ stored' = stored \ {upload[u].old}
    /\ Reach(u, "accepted")
    /\ UNCHANGED <<row, temporary, unheard, failures>>

\* The deferred discard after an error.
Discard(u) ==
    /\ upload[u].phase = "aborted"
    /\ temporary' = temporary \ {u} /\ stored' = stored \ {u}
    /\ Reach(u, "refused")
    /\ UNCHANGED <<row, unheard, failures>>

\* A statement or the rename fails.
Fail(u) ==
    /\ upload[u].phase \in {"prepared", "locked", "renamed"}
    /\ failures < MaxFailures
    /\ Reach(u, "aborted")
    /\ failures' = failures + 1
    /\ UNCHANGED <<row, temporary, stored, unheard>>

\* The process ends: files stay, and so does an old image about to be removed.
Crash ==
    /\ failures < MaxFailures
    /\ upload' = [u \in Uploads |->
          CASE upload[u].phase \in Running -> [upload[u] EXCEPT !.phase = "lost"]
            [] upload[u].phase = "replaced" -> [upload[u] EXCEPT !.phase = "left"]
            [] OTHER -> upload[u]]
    /\ failures' = failures + 1
    /\ UNCHANGED <<row, temporary, stored, unheard>>

-----------------------------------------------------------------------------

Next ==
    \/ \E u \in Uploads :
          \/ \E s \in Places :
                \/ CreateProduct(u, s)
                \/ \E image \in BOOLEAN : UpdateProduct(u, s, image)
                \/ UpdateShopLogo(u, s)
          \/ Prepare(u)
          \/ Lock(u)
          \/ Rename(u)
          \/ Commit(u)
          \/ CommitUnheard(u)
          \/ Refuse(u)
          \/ RemoveOld(u)
          \/ Discard(u)
          \/ Fail(u)
    \/ Crash

Spec == Init /\ [][Next]_vars

-----------------------------------------------------------------------------
(* Properties *)

(* Every variable has its type, and no file is both temporary and stored. *)
TypeOK ==
    /\ row \in [Places -> Images \cup {None}]
    /\ temporary \subseteq Uploads /\ stored \subseteq Images \ temporary
    /\ upload \in [Uploads -> Request]
    /\ unheard \subseteq Uploads
    /\ failures \in 0..MaxFailures

(* A row names an image whose file is there: replacements of one image that overlap,
   changes that fail and crashes do not remove what a row still names.  Only a commit
   whose answer was lost does: the handler discards what it has committed. *)
MissingOnlyUnheard == \A s \in Places : row[s] # None => row[s] \in stored \cup unheard

Place(f) == IF f \in Places THEN f ELSE upload[f].place

\* f belongs to a request at work or cut short, or to the row that names it.
Owned(f) ==
    \/ f \in Uploads /\ upload[f].phase \in Running \cup {"lost"}
    \/ row[Place(f)] = f

\* f was replaced by a request that is about to remove it, was cut short before it
\* could, or never heard that it had replaced it.
Replaced(f) ==
    \E v \in Uploads : /\ upload[v].old = f
                       /\ upload[v].phase \in {"replaced", "left"} \/ v \in unheard

(* No image of a product is left behind but by a crash or by a commit whose answer
   was lost: the old image is read under the lock, so of several replacements each
   removes the one before it. *)
ProductFilesAccounted ==
    \A f \in temporary \cup stored : Place(f) \in Logos \/ Owned(f) \/ Replaced(f)

(* The same for logos: whoever replaces a logo removes it, as the test of
   updateShopLogo checks for one upload after the other. *)
ReplacedLogoIsRemoved ==
    \A f \in temporary \cup stored : Place(f) \in Products \/ Owned(f) \/ Replaced(f)
=============================================================================
