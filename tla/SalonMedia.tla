------------------------------ MODULE SalonMedia ------------------------------
(***************************************************************************)
(* The pictures of a salon: its logo, its photos and those of its services *)
(* (AttachSalonLogo, AddSalonPhoto, RemoveSalonPhoto of                    *)
(* application/salons.py; AddServicePhoto, RemoveServicePhoto of           *)
(* application/services.py), and the public page that shows them           *)
(* (GetPublicSalon of application/catalog.py).                             *)
(*                                                                         *)
(* Rows of PostgreSQL refer by key to objects of a bucket.  A client asks  *)
(* for a signed URL, uploads the object itself and then attaches its key.  *)
(* The server deletes an object before it commits the row that lets it go. *)
(* A request is one transaction at READ COMMITTED and one action is one of *)
(* its statements, a call of the bucket or the commit.  created_at, which  *)
(* orders photos of one position, is left out.                             *)
(***************************************************************************)
EXTENDS Integers, Sequences, FiniteSets

CONSTANTS
  Requests,    \* bound: the requests of a behaviour
  Services,    \* the services of the salon, all active
  MaxPhotos,   \* MEDIA_MAX_PHOTOS
  MaxUploads,  \* bound: objects uploaded
  None

Galleries == Services \cup {"salon"}
Kind(g)   == IF g = "salon" THEN "photo" ELSE "service"
Keys      == {"logo", "photo", "service"} \X (0 .. MaxUploads)
FirstLogo == <<"logo", 0>>

VARIABLES
  logo,    \* salons.logo_object_key
  photos,  \* gallery -> rows of salon_photos or service_photos
  bucket,  \* the objects that exist
  issued,  \* the keys that were signed for an upload
  trail,   \* audit_logs: the services whose photos were said to change
  txn      \* request -> program counter and local values

vars == <<logo, photos, bucket, issued, trail, txn>>
rows == <<logo, photos>>

New == [pc |-> "new", op |-> "none", on |-> None, key |-> None, seen |-> None,
        set |-> FALSE, count |-> 0, place |-> 0, gone |-> None, shown |-> {}, answer |-> None]

Init ==
  /\ logo = FirstLogo /\ bucket = {FirstLogo} /\ issued = {FirstLogo}
  /\ photos = [g \in Galleries |-> {}]
  /\ trail = <<>>
  /\ txn = [r \in Requests |-> New]

Goto(r, pc) == txn' = [txn EXCEPT ![r].pc = pc]
Answer(r, a) == txn' = [txn EXCEPT ![r].pc = "done", ![r].answer = a,
                                   ![r].set = FALSE, ![r].count = 0, ![r].place = 0,
                                   ![r].seen = None]

Refusals == {"MediaKeyMismatch", "PhotoLimitExceeded", "SalonNotFound", "ServiceNotFound"}

KeysOf(g)  == {p.key : p \in photos[g]}
Referenced == {logo} \cup UNION {KeysOf(g) : g \in Galleries}

-----------------------------------------------------------------------------
(* POST media/upload-url: a key that was never used, of the kind asked for *)
(* (_build_object_key), and the upload by the client.                      *)
FreshKey(kind) == <<kind, Cardinality(issued)>>

IssueMediaUploadUrl(kind) ==
  /\ Cardinality(issued) <= MaxUploads
  /\ issued' = issued \cup {FreshKey(kind)}
  /\ UNCHANGED <<rows, bucket, trail, txn>>

(* POST services/media/upload-url                                          *)
IssueServiceImageUploadUrl == IssueMediaUploadUrl("service")

Upload(k) ==
  /\ k \in issued \ bucket /\ \A r \in Requests : k \notin {txn[r].key, txn[r].gone}
  /\ bucket' = bucket \cup {k}
  /\ UNCHANGED <<rows, issued, trail, txn>>

-----------------------------------------------------------------------------
Begin(r, op, on, k, pc) ==
  /\ txn[r].pc = "new"
  /\ txn' = [txn EXCEPT ![r] = [New EXCEPT !.pc = pc, !.op = op, !.on = on, !.key = k]]
  /\ UNCHANGED <<rows, bucket, issued, trail>>

Refuse(r, op, on, a) ==
  /\ txn[r].pc = "new"
  /\ txn' = [txn EXCEPT ![r] = [New EXCEPT !.pc = "done", !.op = op, !.on = on, !.answer = a]]
  /\ UNCHANGED <<rows, bucket, issued, trail>>

(* PUT logo; _ensure_key_prefix refuses a key of another kind.             *)
SetLogo(r, k) == IF k[1] = "logo" THEN Begin(r, "logo", "salon", k, "find")
                 ELSE Refuse(r, "logo", "salon", "MediaKeyMismatch")

(* POST photos                                                             *)
AddSalonPhoto(r, k) == IF k[1] = "photo" THEN Begin(r, "add", "salon", k, "limit")
                       ELSE Refuse(r, "add", "salon", "MediaKeyMismatch")

(* POST services/photos; the service may be unknown.                       *)
AddServicePhoto(r, s, k) ==
  IF k[1] # "service" THEN Refuse(r, "add", s, "MediaKeyMismatch")
  ELSE IF s = None THEN Refuse(r, "add", s, "ServiceNotFound")
  ELSE Begin(r, "add", s, k, "limit")

(* DELETE photos and DELETE services/photos: the row is selected.          *)
RemoveSalonPhoto(r, k) == IF k \in KeysOf("salon") THEN Begin(r, "remove", "salon", k, "delete")
                          ELSE Refuse(r, "remove", "salon", "SalonNotFound")

RemoveServicePhoto(r, s, k) == IF k \in KeysOf(s) THEN Begin(r, "remove", s, k, "delete")
                               ELSE Refuse(r, "remove", s, "ServiceNotFound")

-----------------------------------------------------------------------------
(* AttachSalonLogo                                                         *)
Locks(q)      == txn[q].pc \in {"clean", "written"}
LogoHolders   == {q \in Requests : Locks(q) /\ txn[q].op = "logo" /\ txn[q].set}

FindSalon(r) ==
  /\ txn[r].pc = "find"
  /\ txn' = [txn EXCEPT ![r].pc = "load", ![r].seen = logo]
  /\ UNCHANGED <<rows, bucket, issued, trail>>

(* set_logo: the row is loaded, and the column written if it differs.      *)
LoadSalon(r) ==
  /\ txn[r].pc = "load"
  /\ txn' = [txn EXCEPT ![r].pc = "flush", ![r].set = (logo # txn[r].key)]
  /\ UNCHANGED <<rows, bucket, issued, trail>>

FlushLogo(r) ==
  /\ txn[r].pc = "flush"
  /\ txn[r].set => LogoHolders = {}
  /\ Goto(r, IF txn[r].seen = txn[r].key THEN "written" ELSE "clean")
  /\ UNCHANGED <<rows, bucket, issued, trail>>

CleanAttached(r) ==                                                 \* mutant
  LET old == txn[r].key
  IN /\ txn[r].pc = "clean"
     /\ bucket' = bucket \ {old}
     /\ txn' = [txn EXCEPT ![r].pc = "written", ![r].gone = old]
     /\ UNCHANGED <<rows, issued, trail>>

(* MediaStorage.delete of what the request lets go: the logo it found, or  *)
(* the photo it removes.                                                   *)
Clean(r) ==
  LET old == IF txn[r].op = "logo" THEN txn[r].seen ELSE txn[r].key
  IN /\ txn[r].pc = "clean"
     /\ bucket' = bucket \ {old}
     /\ txn' = [txn EXCEPT ![r].pc = "written", ![r].gone = old]
     /\ UNCHANGED <<rows, issued, trail>>

-----------------------------------------------------------------------------
(* AddSalonPhoto, AddServicePhoto                                          *)
CheckLimitOff(r) ==                                                 \* mutant
  LET n == Cardinality(photos[txn[r].on])
  IN /\ txn[r].pc = "limit"
     /\ IF n > MaxPhotos THEN Answer(r, "PhotoLimitExceeded")
        ELSE txn' = [txn EXCEPT ![r].pc = "place", ![r].count = n]
     /\ UNCHANGED <<rows, bucket, issued, trail>>

(* The photos of the gallery are counted against the limit ...             *)
CheckLimit(r) ==
  LET n == Cardinality(photos[txn[r].on])
  IN /\ txn[r].pc = "limit"
     /\ IF n >= MaxPhotos THEN Answer(r, "PhotoLimitExceeded")
        ELSE txn' = [txn EXCEPT ![r].pc = "place", ![r].count = n]
     /\ UNCHANGED <<rows, bucket, issued, trail>>

(* ... and once more by add_photo: their number is the position.           *)
CountPhotos(r) ==
  /\ txn[r].pc = "place"
  /\ txn' = [txn EXCEPT ![r].pc = "insert", ![r].place = Cardinality(photos[txn[r].on])]
  /\ UNCHANGED <<rows, bucket, issued, trail>>

(* The INSERT: a key is in a table once for a salon.  It waits for another *)
(* transaction that inserts the key or deletes its row.                    *)
Contenders(r) == {q \in Requests \ {r} : /\ Locks(q) /\ txn[q].op \in {"add", "remove"}
                                         /\ txn[q].key = txn[r].key}
Taken(k) == \E g \in Galleries : k \in KeysOf(g)

InsertPhoto(r) ==
  /\ txn[r].pc = "insert" /\ Contenders(r) = {}
  /\ IF Taken(txn[r].key) THEN Answer(r, "error") ELSE Goto(r, "written")
  /\ UNCHANGED <<rows, bucket, issued, trail>>

(* delete_photo: the DELETE waits for another one of the row; that it then *)
(* deletes no row is not an error.                                         *)
DeletePhoto(r) ==
  /\ txn[r].pc = "delete" /\ Contenders(r) = {}
  /\ Goto(r, "clean")
  /\ UNCHANGED <<rows, bucket, issued, trail>>

-----------------------------------------------------------------------------
(* The commit of each, with the line of the log for a service.             *)
CommitLogo(r) ==
  /\ txn[r].pc = "written" /\ txn[r].op = "logo"
  /\ logo' = IF txn[r].set THEN txn[r].key ELSE logo
  /\ Answer(r, "ok")
  /\ UNCHANGED <<photos, bucket, issued, trail>>

Changed(g) == IF g \in Services THEN <<g>> ELSE <<>>

CommitAddition(r) ==
  /\ txn[r].pc = "written" /\ txn[r].op = "add"
  /\ photos' = [photos EXCEPT ![txn[r].on] =
                  @ \cup {[key |-> txn[r].key, position |-> txn[r].place]}]
  /\ trail' = trail \o Changed(txn[r].on)
  /\ Answer(r, "ok")
  /\ UNCHANGED <<logo, bucket, issued>>

CommitRemoval(r) ==
  /\ txn[r].pc = "written" /\ txn[r].op = "remove"
  /\ photos' = [photos EXCEPT ![txn[r].on] = {p \in @ : p.key # txn[r].key}]
  /\ trail' = trail \o Changed(txn[r].on)
  /\ Answer(r, "ok")
  /\ UNCHANGED <<logo, bucket, issued>>

-----------------------------------------------------------------------------
(* GET catalog: the salon with its logo, then its services, its photos and *)
(* those of all services, one SELECT after the other; each key is signed.  *)
GetPublicSalon(r) ==
  /\ txn[r].pc = "new"
  /\ txn' = [txn EXCEPT ![r] = [New EXCEPT !.pc = "photos", !.op = "page", !.on = "salon",
                                           !.shown = {logo}]]
  /\ UNCHANGED <<rows, bucket, issued, trail>>

ListPhotos(r) ==
  /\ txn[r].pc = "photos"
  /\ txn' = [txn EXCEPT ![r].pc = "covers", ![r].shown = @ \cup KeysOf("salon")]
  /\ UNCHANGED <<rows, bucket, issued, trail>>

ListServicePhotos(r) ==
  /\ txn[r].pc = "covers"
  /\ txn' = [txn EXCEPT ![r].pc = "done", ![r].answer = "ok",
                        ![r].shown = @ \cup UNION {KeysOf(s) : s \in Services}]
  /\ UNCHANGED <<rows, bucket, issued, trail>>

-----------------------------------------------------------------------------
(* A statement, the bucket or the commit fails: the rows stay as they      *)
(* were, the bucket does not.  The bucket's errors are not caught.         *)
Abort(r) ==
  /\ txn[r].pc \in {"insert", "delete", "flush", "clean", "written"}
  /\ Answer(r, "error")
  /\ UNCHANGED <<rows, bucket, issued, trail>>

Receive(r) ==
  \/ \E k \in bucket : SetLogo(r, k) \/ AddSalonPhoto(r, k)
                       \/ \E s \in Services \cup {None} : AddServicePhoto(r, s, k)
  \/ \E k \in issued \ {FirstLogo} :
       RemoveSalonPhoto(r, k) \/ \E s \in Services : RemoveServicePhoto(r, s, k)
  \/ GetPublicSalon(r)

Attach(r) == FindSalon(r) \/ LoadSalon(r) \/ FlushLogo(r) \/ CommitLogo(r)
Add(r)    == CheckLimit(r) \/ CountPhotos(r) \/ InsertPhoto(r) \/ CommitAddition(r)
Remove(r) == DeletePhoto(r) \/ CommitRemoval(r)
Show(r)   == ListPhotos(r) \/ ListServicePhotos(r)

Next ==
  \/ IssueMediaUploadUrl("logo") \/ IssueMediaUploadUrl("photo") \/ IssueServiceImageUploadUrl
  \/ \E k \in Keys : Upload(k)
  \/ \E r \in Requests : \/ Receive(r) \/ Attach(r) \/ Add(r) \/ Remove(r) \/ Clean(r)
                         \/ Show(r) \/ Abort(r)

Spec == Init /\ [][Next]_vars

-----------------------------------------------------------------------------
(* What the proofs take of the constants.                                  *)
MediaAssumption ==
  /\ IsFiniteSet(Requests) /\ MaxPhotos \in Nat /\ MaxUploads \in Nat
  /\ None \notin Keys \cup Refusals \cup {"ok", "error"} /\ "salon" \notin Services

TypeOK ==
  /\ logo \in Keys /\ bucket \subseteq Keys /\ issued \subseteq Keys
  /\ \A g \in Galleries : \A p \in photos[g] :
       p.key[1] = Kind(g) /\ p.position \in 0 .. MaxUploads
  /\ \A r \in Requests : /\ txn[r].shown \subseteq Keys
                         /\ txn[r].answer \in Refusals \cup {None, "ok", "error"}

(* What a row or a page refers to is in the bucket, unless a request that  *)
(* has not committed (it will, or it failed after the deletion) let it go; *)
(* a page may also show what a request let go since.  Attaching a key      *)
(* twice, as a late repetition of a request does, gives no such guarantee. *)
Attachments(k) == {r \in Requests : txn[r].op \in {"logo", "add"} /\ txn[r].key = k}
Once(k)        == Cardinality(Attachments(k)) <= IF k = FirstLogo THEN 0 ELSE 1

ReferencedObjectsExist ==
  /\ \A k \in Referenced \ bucket :
       Once(k) => \E r \in Requests : txn[r].gone = k /\ txn[r].answer # "ok"
  /\ \A r \in Requests : \A k \in txn[r].shown \ bucket :
       \E q \in Requests : txn[q].gone = k

(* A gallery exceeds MEDIA_MAX_PHOTOS only by an addition that had counted *)
(* fewer photos than there were when it committed: no addition that ran    *)
(* alone does (salons.py and services.py, PhotoLimitExceeded).             *)
PhotosWithinLimit ==
  [][\A g \in Galleries :
       Cardinality(photos'[g]) > Cardinality(photos[g]) /\ Cardinality(photos'[g]) > MaxPhotos =>
         \E r \in Requests : /\ txn[r].op = "add" /\ txn[r].on = g
                             /\ txn[r].pc = "written" /\ txn'[r].pc = "done"
                             /\ txn[r].count < Cardinality(photos[g])]_vars
=============================================================================
