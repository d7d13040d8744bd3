------------------------------ MODULE DeskProofs ------------------------------
(***************************************************************************)
(* Three desks of BackOffice, each by the invariant its steps keep: the    *)
(* pictures (MediaSafe), the catalogue (CatalogueInv) and the opening      *)
(* hours (HoursInv).  What a run checks of them follows from these in      *)
(* MediaTyped, MediaExists, MediaLimited, CatalogueTyped,                  *)
(* CatalogueTakesEffect, CatalogueLogs, HoursSay and SlotsFree, which      *)
(* BackOfficeProofs turns into theorems of the back office.                *)
(***************************************************************************)
EXTENDS BackOffice, TLAPS, FiniteSetTheorems

(* An instance has its own name for the size of a set.                     *)
LEMMA MediaSizes ==
  /\ \A S : Media!Cardinality(S) = Cardinality(S)
  /\ \A S : Media!IsFiniteSet(S) <=> IsFiniteSet(S)
  BY DEF Media!Cardinality, Cardinality, Media!IsFiniteSet, IsFiniteSet

LEMMA CustomerSizes ==
  /\ \A S : Cards!Cardinality(S) = Cardinality(S)
  /\ \A S : Cards!IsFiniteSet(S) <=> IsFiniteSet(S)
  BY DEF Cards!Cardinality, Cardinality, Cards!IsFiniteSet, IsFiniteSet

LEMMA CatalogueSizes == \A S : Catalogue!Cardinality(S) = Cardinality(S)
  BY DEF Catalogue!Cardinality, Cardinality

LEMMA HoursSizes == \A S : Opening!Cardinality(S) = Cardinality(S)
  BY DEF Opening!Cardinality, Cardinality

-----------------------------------------------------------------------------
(* The pictures (SalonMedia).                                              *)

MediaPcs == {"new", "find", "load", "flush", "clean", "written", "limit", "place", "insert",
             "delete", "photos", "covers", "done"}
MediaOps == {"none", "logo", "add", "remove", "page"}
MediaAnswers == Media!Refusals \cup {None, "ok", "error"}
Photos == [key : Media!Keys, position : 0 .. MaxUploads]

MediaTxns ==
  [pc : MediaPcs, op : MediaOps, on : Media!Galleries \cup {None}, key : Media!Keys \cup {None},
   seen : Media!Keys \cup {None}, set : BOOLEAN, count : Nat, place : Nat,
   gone : Media!Keys \cup {None}, shown : SUBSET Media!Keys, answer : MediaAnswers]

(* The program counters a request of each kind can have.                   *)
MediaCourse(x) ==
  \/ x.op = "none" /\ x.pc = "new" /\ x = Media!New
  \/ x.op = "logo" /\ x.pc \in {"find", "load", "flush", "clean", "written", "done"}
  \/ x.op = "add" /\ x.pc \in {"limit", "place", "insert", "written", "done"}
  \/ x.op = "remove" /\ x.pc \in {"delete", "clean", "written", "done"}
  \/ x.op = "page" /\ x.pc \in {"photos", "covers", "done"}

(* What its local values hold.                                             *)
MediaValues(x) ==
  /\ x.answer = None <=> x.pc # "done"
  /\ x.op \in {"logo", "add", "remove"} /\ x.pc # "done" => x.key \in issued
  /\ x.op = "logo" /\ x.key # None => x.key[1] = "logo" /\ x.on = "salon"
  /\ x.op \in {"add", "remove"} /\ x.key # None =>
       x.on \in Media!Galleries /\ x.key[1] = Media!Kind(x.on)
  /\ x.op = "logo" /\ x.pc \in {"load", "flush", "clean", "written"} => x.seen \in Media!Keys
  /\ x.op = "logo" /\ x.pc = "clean" => x.seen # x.key
  /\ x.op = "add" /\ x.pc \in {"place", "insert", "written"} => x.count < MaxPhotos
  /\ x.op = "add" /\ x.pc \in {"insert", "written"} => x.place \in 0 .. MaxUploads
  /\ x.gone # None => x.op \in {"logo", "remove"} /\ x.pc \in {"written", "done"} /\ x.key # None
  /\ x.op = "logo" /\ x.pc = "written" /\ x.gone # None => x.gone = x.seen /\ x.seen # x.key
  /\ x.op = "logo" /\ x.pc = "done" /\ x.gone # None /\ x.answer = "ok" => x.gone # x.key
  /\ x.op = "remove" /\ x.gone # None => x.gone = x.key
  /\ x.op = "remove" /\ x.pc = "written" => x.gone = x.key
  /\ x.answer = "ok" /\ x.op \in {"logo", "add", "remove"} => x.key # None

MediaFits(x) == x \in MediaTxns /\ MediaCourse(x) /\ MediaValues(x)

OfKind(g) == \A p \in photos[g] : /\ p \in Photos
                                  /\ p.key[1] = Media!Kind(g) /\ p.key \in issued
OncePerKey(g) == \A p, q \in photos[g] : p.key = q.key => p = q

MediaRows ==
  /\ logo \in Media!Keys /\ logo[1] = "logo"
  /\ bucket \subseteq issued /\ issued \subseteq Media!Keys /\ Media!FirstLogo \in issued
  /\ IsFiniteSet(issued) /\ Cardinality(issued) <= MaxUploads + 1
  /\ photos \in [Media!Galleries -> SUBSET Photos]
  /\ \A g \in Media!Galleries : IsFiniteSet(photos[g]) /\ OfKind(g) /\ OncePerKey(g)

MediaLocks ==
  /\ \A r \in Requests : mediaTxn[r].op = "add" /\ mediaTxn[r].pc = "written" =>
       ~Media!Taken(mediaTxn[r].key)
  /\ \A q, r \in Requests :
       /\ Media!Locks(q) /\ mediaTxn[q].op \in {"add", "remove"}
       /\ Media!Locks(r) /\ mediaTxn[r].op \in {"add", "remove"}
       /\ mediaTxn[q].key = mediaTxn[r].key
       => q = r

MediaLocal == mediaTxn \in [Requests -> MediaTxns] /\ \A r \in Requests : MediaFits(mediaTxn[r])

MediaInv == MediaRows /\ MediaLocal /\ MediaLocks

(* A request that put the object there, and answered.                      *)
Put(k, op, g) == \E r \in Requests : /\ mediaTxn[r].op = op /\ mediaTxn[r].key = k
                                     /\ mediaTxn[r].on = g
                                     /\ mediaTxn[r].answer = "ok"

Left(k) == k = Media!FirstLogo \/ Put(k, "logo", "salon")
Gone(k) == \E q \in Requests : mediaTxn[q].gone = k
InPlace(k) == k \in bucket \/ Gone(k)
Sole(k) == \A a, b \in Media!Attachments(k) : a = b /\ k # Media!FirstLogo

MediaPut ==
  /\ Left(logo)
  /\ \A g \in Media!Galleries : \A k \in Media!KeysOf(g) : Put(k, "add", g)
  /\ \A r \in Requests :
       /\ mediaTxn[r].op = "remove" /\ mediaTxn[r].key # None =>
            Put(mediaTxn[r].key, "add", mediaTxn[r].on)
       /\ mediaTxn[r].op = "logo" /\ mediaTxn[r].seen # None => Left(mediaTxn[r].seen)
       /\ mediaTxn[r].op = "logo" /\ mediaTxn[r].gone # None => Left(mediaTxn[r].gone)

MediaPlaced ==
  /\ \A k \in Media!Referenced : InPlace(k)
  /\ \A r \in Requests :
       /\ \A k \in mediaTxn[r].shown : InPlace(k)
       /\ mediaTxn[r].op \in {"logo", "add"} /\ mediaTxn[r].key # None => InPlace(mediaTxn[r].key)

MediaLetGo ==
  \A r \in Requests :
    /\ mediaTxn[r].op = "logo" /\ mediaTxn[r].pc \in {"flush", "clean", "written"}
       /\ ~mediaTxn[r].set /\ mediaTxn[r].seen # mediaTxn[r].key /\ Sole(mediaTxn[r].seen)
       => logo # mediaTxn[r].seen
    /\ mediaTxn[r].answer = "ok" /\ mediaTxn[r].gone # None /\ Sole(mediaTxn[r].gone) =>
         mediaTxn[r].gone \notin Media!Referenced

MediaSafe == MediaInv /\ MediaPut /\ MediaPlaced /\ MediaLetGo

Only(r) == \A q \in Requests \ {r} : mediaTxn'[q] = mediaTxn[q]

LEMMA MediaGeneral ==
  ASSUME Media!MediaAssumption
  PROVE  /\ Media!FirstLogo \in Media!Keys /\ Media!FirstLogo[1] = "logo"
         /\ \A k \in Media!Keys : k # None /\ k[1] \in {"logo", "photo", "service"}
         /\ \A g \in Media!Galleries : Media!Kind(g) \in {"photo", "service"}
         /\ None \notin Media!Refusals \cup {"ok", "error"}
  BY DEF Media!MediaAssumption, Media!Keys, Media!FirstLogo, Media!Kind

(* A request that moves and what it becomes.                               *)
LEMMA MediaMove ==
  ASSUME MediaLocal, issued \subseteq issued', NEW r \in Requests,
         Only(r), MediaFits(mediaTxn[r])', mediaTxn' = [mediaTxn EXCEPT ![r] = mediaTxn'[r]]
  PROVE  MediaLocal'
  <1>1. \A q \in Requests : MediaFits(mediaTxn[q])'
    BY DEF Only, MediaLocal, MediaFits, MediaValues
  <1> QED BY <1>1 DEF MediaLocal, MediaFits

(* One local value of a request is set.                                    *)
LEMMA MediaSetOne ==
  ASSUME NEW x \in MediaTxns
  PROVE  /\ \A v \in MediaPcs : [x EXCEPT !.pc = v] \in MediaTxns
         /\ \A v \in MediaOps : [x EXCEPT !.op = v] \in MediaTxns
         /\ \A v \in Media!Galleries \cup {None} : [x EXCEPT !.on = v] \in MediaTxns
         /\ \A v \in Media!Keys \cup {None} : [x EXCEPT !.key = v] \in MediaTxns
         /\ \A v \in Media!Keys \cup {None} : [x EXCEPT !.seen = v] \in MediaTxns
         /\ \A v \in BOOLEAN : [x EXCEPT !.set = v] \in MediaTxns
         /\ \A v \in Nat : [x EXCEPT !.count = v] \in MediaTxns
         /\ \A v \in Nat : [x EXCEPT !.place = v] \in MediaTxns
         /\ \A v \in Media!Keys \cup {None} : [x EXCEPT !.gone = v] \in MediaTxns
         /\ \A v \in SUBSET Media!Keys : [x EXCEPT !.shown = v] \in MediaTxns
         /\ \A v \in MediaAnswers : [x EXCEPT !.answer = v] \in MediaTxns
  BY DEF MediaTxns

LEMMA MediaNew == Media!New \in MediaTxns
  BY DEF Media!New, MediaTxns, MediaPcs, MediaOps, MediaAnswers

LEMMA MediaFirst ==
  ASSUME NEW p \in MediaPcs, NEW o \in MediaOps, NEW g \in Media!Galleries \cup {None},
         NEW k \in Media!Keys \cup {None}
  PROVE  [Media!New EXCEPT !.pc = p, !.op = o, !.on = g, !.key = k] \in MediaTxns
<1>1. [[[Media!New EXCEPT !.pc = p] EXCEPT !.op = o] EXCEPT !.on = g] \in MediaTxns
  BY MediaNew, MediaSetOne
<1>2. [Media!New EXCEPT !.pc = p, !.op = o, !.on = g, !.key = k]
        = [[[[Media!New EXCEPT !.pc = p] EXCEPT !.op = o] EXCEPT !.on = g] EXCEPT !.key = k]
  OBVIOUS
<1>3. QED
  BY <1>1, <1>2, MediaSetOne

(* What a request that begins, or is refused, holds.                       *)
Begun(y, pc, op, on, k, a) ==
  /\ y.pc = pc /\ y.op = op /\ y.on = on /\ y.key = k /\ y.answer = a
  /\ y.seen = None /\ y.set = FALSE /\ y.count = 0 /\ y.place = 0 /\ y.gone = None
  /\ y.shown = {}

LEMMA MediaBegin ==
  ASSUME Media!MediaAssumption, MediaInv, NEW r \in Requests, NEW k \in issued,
         NEW op \in {"logo", "add", "remove"}, NEW on \in Media!Galleries,
         op = "logo" => k[1] = "logo" /\ on = "salon", op # "logo" => k[1] = Media!Kind(on),
         NEW pc \in {"find", "limit", "delete"},
         op = "logo" => pc = "find", op = "add" => pc = "limit", op = "remove" => pc = "delete",
         Media!Begin(r, op, on, k, pc)
  PROVE  MediaLocal' /\ Only(r) /\ Begun(mediaTxn'[r], pc, op, on, k, None)
<1>1. MediaLocal /\ mediaTxn[r] \in MediaTxns /\ k \in Media!Keys
  BY DEF MediaInv, MediaLocal, MediaRows
<1>2. mediaTxn'[r] = [Media!New EXCEPT !.pc = pc, !.op = op, !.on = on, !.key = k] /\ Only(r)
  BY <1>1 DEF Media!Begin, Only, MediaLocal
<1>3. mediaTxn'[r] \in MediaTxns
  <2>1. pc \in MediaPcs /\ op \in MediaOps
    BY DEF MediaPcs, MediaOps
  <2>2. [Media!New EXCEPT !.pc = pc, !.op = op, !.on = on, !.key = k] \in MediaTxns
    BY <1>1, <2>1, MediaFirst
  <2>3. QED
    BY <1>2, <2>2
<1>4. Begun(mediaTxn'[r], pc, op, on, k, None)
  BY <1>2 DEF Media!New, Begun
<1>5. MediaCourse(mediaTxn'[r])
  BY <1>4 DEF MediaCourse, Begun
<1>6. MediaValues(mediaTxn[r])'
  BY <1>1, <1>4, MediaGeneral DEF MediaValues, Begun, Media!Begin
<1>7. MediaFits(mediaTxn[r])'
  BY <1>3, <1>5, <1>6 DEF MediaFits
<1>8. QED
  BY <1>1, <1>2, <1>4, <1>7, MediaMove DEF Media!Begin

LEMMA MediaRefuse ==
  ASSUME Media!MediaAssumption, MediaInv, NEW r \in Requests,
         NEW op \in {"logo", "add", "remove"}, NEW on \in Media!Galleries \cup {None},
         NEW a \in Media!Refusals,
         Media!Refuse(r, op, on, a)
  PROVE  MediaLocal' /\ Only(r) /\ Begun(mediaTxn'[r], "done", op, on, None, a)
<1>1. MediaLocal
  BY DEF MediaInv
<1>2. mediaTxn'[r] = [Media!New EXCEPT !.pc = "done", !.op = op, !.on = on, !.answer = a] /\ Only(r)
  BY <1>1 DEF Media!Refuse, Only, MediaLocal
<1>3. mediaTxn'[r] \in MediaTxns
  <2>1. /\ "done" \in MediaPcs /\ op \in MediaOps /\ a \in MediaAnswers
        /\ on \in Media!Galleries \cup {None}
    BY DEF MediaPcs, MediaOps, MediaAnswers
  <2>2. [[Media!New EXCEPT !.pc = "done"] EXCEPT !.op = op] \in MediaTxns
    BY <2>1, MediaNew, MediaSetOne
  <2>3. [[[Media!New EXCEPT !.pc = "done"] EXCEPT !.op = op] EXCEPT !.on = on] \in MediaTxns
    BY <2>1, <2>2, MediaSetOne
  <2>4. [[[[Media!New EXCEPT !.pc = "done"] EXCEPT !.op = op] EXCEPT !.on = on] EXCEPT !.answer = a]
           \in MediaTxns
    BY <2>1, <2>3, MediaSetOne
  <2>5. QED
    BY <1>2, <2>4
<1>4. Begun(mediaTxn'[r], "done", op, on, None, a)
  BY <1>2 DEF Media!New, Begun
<1>5. MediaCourse(mediaTxn'[r])
  BY <1>4 DEF MediaCourse, Begun
<1>6. MediaValues(mediaTxn[r])'
  BY <1>4, MediaGeneral DEF MediaValues, Begun, Media!Refusals
<1>7. MediaFits(mediaTxn[r])'
  BY <1>3, <1>5, <1>6 DEF MediaFits
<1>8. QED
  BY <1>1, <1>2, <1>4, <1>7, MediaMove DEF Media!Refuse
















(* The photos of a gallery are at most as many as the objects uploaded.    *)
LEMMA MediaBounded ==
  ASSUME Media!MediaAssumption, MediaRows, NEW g \in Media!Galleries
  PROVE  Cardinality(photos[g]) \in 0 .. MaxUploads
<1> DEFINE f == [p \in photos[g] |-> p.key]
<1> DEFINE T == issued \ {Media!FirstLogo}
<1>1. IsFiniteSet(issued) /\ Media!FirstLogo \in issued /\ Cardinality(issued) <= MaxUploads + 1
      /\ IsFiniteSet(photos[g]) /\ OfKind(g) /\ OncePerKey(g)
  BY DEF MediaRows
<1>2. IsFiniteSet(T) /\ Cardinality(T) = Cardinality(issued) - 1
  BY <1>1, FS_RemoveElement
<1>3. \A p \in photos[g] : p.key \in T
  BY <1>1, MediaGeneral DEF OfKind
<1>4. f \in Injection(photos[g], T)
  BY <1>1, <1>3 DEF Injection, IsInjective, OncePerKey
<1>5. Cardinality(photos[g]) <= Cardinality(T)
  BY <1>2, <1>4, FS_Injection
<1>6. Cardinality(photos[g]) \in Nat /\ Cardinality(issued) \in Nat
  BY <1>1, FS_CardinalityType
<1>7. QED
  BY <1>1, <1>2, <1>5, <1>6 DEF Media!MediaAssumption

LEMMA MediaFind ==
  ASSUME Media!MediaAssumption, MediaInv, NEW r \in Requests, Media!FindSalon(r)
  PROVE  MediaLocal' /\ Only(r) /\ mediaTxn'[r] = [mediaTxn[r] EXCEPT !.pc = "load", !.seen = logo]
<1> DEFINE x == mediaTxn[r]
<1> DEFINE y == mediaTxn'[r]
<1>1. MediaLocal /\ x \in MediaTxns /\ MediaCourse(x) /\ MediaValues(x) /\ MediaRows
  BY DEF MediaInv, MediaLocal, MediaFits
<1>2. y = [x EXCEPT !.pc = "load", !.seen = logo] /\ Only(r)
  BY <1>1 DEF Media!FindSalon, Only, MediaLocal
<1>3. x.pc = "find" /\ issued' = issued
  BY <1>1 DEF Media!FindSalon
<1>4. "load" \in MediaPcs /\ logo \in Media!Keys \cup {None} /\ logo \in Media!Keys
  BY <1>1, <1>3, MediaGeneral DEF MediaPcs, MediaRows
<1> HIDE DEF x, y
<1>5. /\ y.op = x.op /\ y.on = x.on /\ y.key = x.key /\ y.set = x.set /\ y.count = x.count
      /\ y.place = x.place /\ y.gone = x.gone /\ y.shown = x.shown /\ y.answer = x.answer
      /\ y.pc = "load" /\ y.seen = logo
  BY <1>1, <1>2 DEF MediaTxns
<1>6. y \in MediaTxns
  <2>1. [x EXCEPT !.pc = "load"] \in MediaTxns
    BY <1>1, <1>4, MediaSetOne
  <2>2. [[x EXCEPT !.pc = "load"] EXCEPT !.seen = logo] \in MediaTxns
    BY <1>1, <1>4, <2>1, MediaSetOne
  <2>3. QED
    BY <1>2, <2>2
<1>7. MediaCourse(y)
  BY <1>1, <1>3, <1>5 DEF MediaCourse
<1>8. MediaValues(mediaTxn[r])'
  BY <1>1, <1>3, <1>4, <1>5, MediaGeneral DEF MediaValues, MediaCourse, y
<1>9. MediaFits(mediaTxn[r])'
  BY <1>6, <1>7, <1>8 DEF MediaFits, y
<1>10. QED
  BY <1>1, <1>2, <1>9, MediaMove DEF Media!FindSalon, x, y

LEMMA MediaLoad ==
  ASSUME Media!MediaAssumption, MediaInv, NEW r \in Requests, Media!LoadSalon(r)
  PROVE  /\ MediaLocal' /\ Only(r)
         /\ mediaTxn'[r] = [mediaTxn[r] EXCEPT !.pc = "flush", !.set = (logo # mediaTxn[r].key)]
<1> DEFINE x == mediaTxn[r]
<1> DEFINE y == mediaTxn'[r]
<1>1. MediaLocal /\ x \in MediaTxns /\ MediaCourse(x) /\ MediaValues(x) /\ MediaRows
  BY DEF MediaInv, MediaLocal, MediaFits
<1>2. y = [x EXCEPT !.pc = "flush", !.set = (logo # mediaTxn[r].key)] /\ Only(r)
  BY <1>1 DEF Media!LoadSalon, Only, MediaLocal
<1>3. x.pc = "load" /\ issued' = issued
  BY <1>1 DEF Media!LoadSalon
<1>4. "flush" \in MediaPcs /\ (logo # mediaTxn[r].key) \in BOOLEAN
  BY <1>1, <1>3, MediaGeneral DEF MediaPcs
<1> HIDE DEF x, y
<1>5. /\ y.op = x.op /\ y.on = x.on /\ y.key = x.key /\ y.seen = x.seen /\ y.count = x.count
      /\ y.place = x.place /\ y.gone = x.gone /\ y.shown = x.shown /\ y.answer = x.answer
      /\ y.pc = "flush" /\ y.set = (logo # mediaTxn[r].key)
  BY <1>1, <1>2 DEF MediaTxns
<1>6. y \in MediaTxns
  <2>1. [x EXCEPT !.pc = "flush"] \in MediaTxns
    BY <1>1, <1>4, MediaSetOne
  <2>2. [[x EXCEPT !.pc = "flush"] EXCEPT !.set = (logo # mediaTxn[r].key)] \in MediaTxns
    BY <1>1, <1>4, <2>1, MediaSetOne
  <2>3. QED
    BY <1>2, <2>2
<1>7. MediaCourse(y)
  BY <1>1, <1>3, <1>5 DEF MediaCourse
<1>8. MediaValues(mediaTxn[r])'
  BY <1>1, <1>3, <1>4, <1>5, MediaGeneral DEF MediaValues, MediaCourse, y
<1>9. MediaFits(mediaTxn[r])'
  BY <1>6, <1>7, <1>8 DEF MediaFits, y
<1>10. QED
  BY <1>1, <1>2, <1>9, MediaMove DEF Media!LoadSalon, x, y

LEMMA MediaFlush ==
  ASSUME Media!MediaAssumption, MediaInv, NEW r \in Requests, Media!FlushLogo(r)
  PROVE  /\ MediaLocal' /\ Only(r)
         /\ mediaTxn'[r] = [mediaTxn[r] EXCEPT !.pc =
                            (IF mediaTxn[r].seen = mediaTxn[r].key THEN "written" ELSE "clean")]
<1> DEFINE x == mediaTxn[r]
<1> DEFINE y == mediaTxn'[r]
<1>1. MediaLocal /\ x \in MediaTxns /\ MediaCourse(x) /\ MediaValues(x) /\ MediaRows
  BY DEF MediaInv, MediaLocal, MediaFits
<1>2. /\ y = [x EXCEPT !.pc = (IF mediaTxn[r].seen = mediaTxn[r].key THEN "written" ELSE "clean")]
      /\ Only(r)
  BY <1>1 DEF Media!FlushLogo, Media!Goto, Only, MediaLocal
<1>3. x.pc = "flush" /\ issued' = issued
  BY <1>1 DEF Media!FlushLogo, Media!Goto
<1>4. (IF mediaTxn[r].seen = mediaTxn[r].key THEN "written" ELSE "clean") \in MediaPcs
  BY <1>1, <1>3, MediaGeneral DEF MediaPcs
<1> HIDE DEF x, y
<1>5. /\ y.op = x.op /\ y.on = x.on /\ y.key = x.key /\ y.seen = x.seen /\ y.set = x.set
      /\ y.count = x.count /\ y.place = x.place /\ y.gone = x.gone /\ y.shown = x.shown
      /\ y.answer = x.answer
      /\ y.pc = (IF mediaTxn[r].seen = mediaTxn[r].key THEN "written" ELSE "clean")
  BY <1>1, <1>2 DEF MediaTxns
<1>6. y.pc = IF x.seen = x.key THEN "written" ELSE "clean"
  BY <1>5 DEF x
<1>7. y \in MediaTxns
  <2>1. [x EXCEPT !.pc = (IF mediaTxn[r].seen = mediaTxn[r].key THEN "written" ELSE "clean")]
          \in MediaTxns
    BY <1>1, <1>4, MediaSetOne
  <2>2. QED
    BY <1>2, <2>1
<1>8. MediaCourse(y)
  BY <1>1, <1>3, <1>5 DEF MediaCourse
<1>9. MediaValues(mediaTxn[r])'
  BY <1>1, <1>3, <1>4, <1>5, <1>6, MediaGeneral DEF MediaValues, MediaCourse, y
<1>10. MediaFits(mediaTxn[r])'
  BY <1>7, <1>8, <1>9 DEF MediaFits, y
<1>11. QED
  BY <1>1, <1>2, <1>10, MediaMove DEF Media!FlushLogo, Media!Goto, x, y

LEMMA MediaDelete ==
  ASSUME Media!MediaAssumption, MediaInv, NEW r \in Requests, Media!DeletePhoto(r)
  PROVE  MediaLocal' /\ Only(r) /\ mediaTxn'[r] = [mediaTxn[r] EXCEPT !.pc = "clean"]
<1> DEFINE x == mediaTxn[r]
<1> DEFINE y == mediaTxn'[r]
<1>1. MediaLocal /\ x \in MediaTxns /\ MediaCourse(x) /\ MediaValues(x) /\ MediaRows
  BY DEF MediaInv, MediaLocal, MediaFits
<1>2. y = [x EXCEPT !.pc = "clean"] /\ Only(r)
  BY <1>1 DEF Media!DeletePhoto, Media!Goto, Only, MediaLocal
<1>3. x.pc = "delete" /\ issued' = issued
  BY <1>1 DEF Media!DeletePhoto, Media!Goto
<1>4. "clean" \in MediaPcs
  BY <1>1, <1>3, MediaGeneral DEF MediaPcs
<1> HIDE DEF x, y
<1>5. /\ y.op = x.op /\ y.on = x.on /\ y.key = x.key /\ y.seen = x.seen /\ y.set = x.set
      /\ y.count = x.count /\ y.place = x.place /\ y.gone = x.gone /\ y.shown = x.shown
      /\ y.answer = x.answer
      /\ y.pc = "clean"
  BY <1>1, <1>2 DEF MediaTxns
<1>6. y \in MediaTxns
  <2>1. [x EXCEPT !.pc = "clean"] \in MediaTxns
    BY <1>1, <1>4, MediaSetOne
  <2>2. QED
    BY <1>2, <2>1
<1>7. MediaCourse(y)
  BY <1>1, <1>3, <1>5 DEF MediaCourse
<1>8. MediaValues(mediaTxn[r])'
  BY <1>1, <1>3, <1>4, <1>5, MediaGeneral DEF MediaValues, MediaCourse, y
<1>9. MediaFits(mediaTxn[r])'
  BY <1>6, <1>7, <1>8 DEF MediaFits, y
<1>10. QED
  BY <1>1, <1>2, <1>9, MediaMove DEF Media!DeletePhoto, Media!Goto, x, y

LEMMA MediaClean ==
  ASSUME Media!MediaAssumption, MediaInv, NEW r \in Requests, Media!Clean(r)
  PROVE  /\ MediaLocal' /\ Only(r)
         /\ mediaTxn'[r] = [mediaTxn[r] EXCEPT !.pc = "written",
               !.gone = (IF mediaTxn[r].op = "logo" THEN mediaTxn[r].seen ELSE mediaTxn[r].key)]
<1> DEFINE x == mediaTxn[r]
<1> DEFINE y == mediaTxn'[r]
<1>1. MediaLocal /\ x \in MediaTxns /\ MediaCourse(x) /\ MediaValues(x) /\ MediaRows
  BY DEF MediaInv, MediaLocal, MediaFits
<1>2. y = [x EXCEPT !.pc = "written", !.gone = (IF x.op = "logo" THEN x.seen ELSE x.key)] /\ Only(r)
  BY <1>1 DEF Media!Clean, Only, MediaLocal
<1>3. x.pc = "clean" /\ issued' = issued
  BY <1>1 DEF Media!Clean
<1>4. /\ "written" \in MediaPcs /\ x.op \in {"logo", "remove"}
      /\ (IF x.op = "logo" THEN x.seen ELSE x.key) \in Media!Keys
  BY <1>1, <1>3, MediaGeneral DEF MediaPcs, MediaRows, MediaCourse, MediaValues
<1> HIDE DEF x, y
<1>5. /\ y.op = x.op /\ y.on = x.on /\ y.key = x.key /\ y.seen = x.seen /\ y.set = x.set
      /\ y.count = x.count /\ y.place = x.place /\ y.shown = x.shown /\ y.answer = x.answer
      /\ y.pc = "written" /\ y.gone = (IF x.op = "logo" THEN x.seen ELSE x.key)
  BY <1>1, <1>2 DEF MediaTxns
<1>6. y \in MediaTxns
  <2>1. [x EXCEPT !.pc = "written"] \in MediaTxns
    BY <1>1, <1>4, MediaSetOne
  <2>2. [[x EXCEPT !.pc = "written"] EXCEPT !.gone = (IF x.op = "logo" THEN x.seen ELSE x.key)]
          \in MediaTxns
    BY <1>1, <1>4, <2>1, MediaSetOne
  <2>3. QED
    BY <1>2, <2>2
<1>7. MediaCourse(y)
  BY <1>1, <1>3, <1>5 DEF MediaCourse
<1>8. MediaValues(mediaTxn[r])'
  BY <1>1, <1>3, <1>4, <1>5, MediaGeneral DEF MediaValues, MediaCourse, MediaRows, y
<1>9. MediaFits(mediaTxn[r])'
  BY <1>6, <1>7, <1>8 DEF MediaFits, y
<1>10. QED
  BY <1>1, <1>2, <1>9, MediaMove DEF Media!Clean, x, y

LEMMA MediaCount ==
  ASSUME Media!MediaAssumption, MediaInv, NEW r \in Requests, Media!CountPhotos(r)
  PROVE  /\ MediaLocal' /\ Only(r)
         /\ mediaTxn'[r] = [mediaTxn[r] EXCEPT !.pc = "insert",
                            !.place = Cardinality(photos[mediaTxn[r].on])]
<1> DEFINE x == mediaTxn[r]
<1> DEFINE y == mediaTxn'[r]
<1>1. MediaLocal /\ x \in MediaTxns /\ MediaCourse(x) /\ MediaValues(x) /\ MediaRows
  BY DEF MediaInv, MediaLocal, MediaFits
<1>2. y = [x EXCEPT !.pc = "insert", !.place = Cardinality(photos[x.on])] /\ Only(r)
  BY <1>1, MediaSizes DEF Media!CountPhotos, Only, MediaLocal
<1>3. x.pc = "place" /\ issued' = issued
  BY <1>1 DEF Media!CountPhotos
<1>4. /\ "insert" \in MediaPcs /\ Cardinality(photos[x.on]) \in 0 .. MaxUploads
      /\ Cardinality(photos[x.on]) \in Nat
  BY <1>1, <1>3, MediaGeneral, MediaBounded DEF MediaPcs, MediaCourse, MediaValues, MediaRows
<1> HIDE DEF x, y
<1>5. /\ y.op = x.op /\ y.on = x.on /\ y.key = x.key /\ y.seen = x.seen /\ y.set = x.set
      /\ y.count = x.count /\ y.gone = x.gone /\ y.shown = x.shown /\ y.answer = x.answer
      /\ y.pc = "insert" /\ y.place = Cardinality(photos[x.on])
  BY <1>1, <1>2 DEF MediaTxns
<1>6. y \in MediaTxns
  <2>1. [x EXCEPT !.pc = "insert"] \in MediaTxns
    BY <1>1, <1>4, MediaSetOne
  <2>2. [[x EXCEPT !.pc = "insert"] EXCEPT !.place = Cardinality(photos[x.on])] \in MediaTxns
    BY <1>1, <1>4, <2>1, MediaSetOne
  <2>3. QED
    BY <1>2, <2>2
<1>7. MediaCourse(y)
  BY <1>1, <1>3, <1>5 DEF MediaCourse
<1>8. MediaValues(mediaTxn[r])'
  BY <1>1, <1>3, <1>4, <1>5, MediaGeneral DEF MediaValues, MediaCourse, y
<1>9. MediaFits(mediaTxn[r])'
  BY <1>6, <1>7, <1>8 DEF MediaFits, y
<1>10. QED
  BY <1>1, <1>2, <1>9, MediaMove DEF Media!CountPhotos, x, y

LEMMA MediaShowPhotos ==
  ASSUME Media!MediaAssumption, MediaInv, NEW r \in Requests, Media!ListPhotos(r)
  PROVE  /\ MediaLocal' /\ Only(r)
         /\ mediaTxn'[r] = [mediaTxn[r] EXCEPT !.pc = "covers",
                            !.shown = mediaTxn[r].shown \cup Media!KeysOf("salon")]
<1> DEFINE x == mediaTxn[r]
<1> DEFINE y == mediaTxn'[r]
<1>1. MediaLocal /\ x \in MediaTxns /\ MediaCourse(x) /\ MediaValues(x) /\ MediaRows
  BY DEF MediaInv, MediaLocal, MediaFits
<1>2. y = [x EXCEPT !.pc = "covers", !.shown = x.shown \cup Media!KeysOf("salon")] /\ Only(r)
  BY <1>1 DEF Media!ListPhotos, Only, MediaLocal
<1>3. x.pc = "photos" /\ issued' = issued
  BY <1>1 DEF Media!ListPhotos
<1>4. "covers" \in MediaPcs /\ x.shown \cup Media!KeysOf("salon") \in SUBSET Media!Keys
  BY <1>1, <1>3, MediaGeneral DEF MediaPcs, Media!KeysOf, MediaRows, OfKind, Media!Galleries,
     MediaTxns, Photos
<1> HIDE DEF x, y
<1>5. /\ y.op = x.op /\ y.on = x.on /\ y.key = x.key /\ y.seen = x.seen /\ y.set = x.set
      /\ y.count = x.count /\ y.place = x.place /\ y.gone = x.gone /\ y.answer = x.answer
      /\ y.pc = "covers" /\ y.shown = x.shown \cup Media!KeysOf("salon")
  BY <1>1, <1>2 DEF MediaTxns
<1>6. y \in MediaTxns
  <2>1. [x EXCEPT !.pc = "covers"] \in MediaTxns
    BY <1>1, <1>4, MediaSetOne
  <2>2. [[x EXCEPT !.pc = "covers"] EXCEPT !.shown = x.shown \cup Media!KeysOf("salon")]
          \in MediaTxns
    BY <1>1, <1>4, <2>1, MediaSetOne
  <2>3. QED
    BY <1>2, <2>2
<1>7. MediaCourse(y)
  BY <1>1, <1>3, <1>5 DEF MediaCourse
<1>8. MediaValues(mediaTxn[r])'
  BY <1>1, <1>3, <1>4, <1>5, MediaGeneral DEF MediaValues, MediaCourse, y
<1>9. MediaFits(mediaTxn[r])'
  BY <1>6, <1>7, <1>8 DEF MediaFits, y
<1>10. QED
  BY <1>1, <1>2, <1>9, MediaMove DEF Media!ListPhotos, x, y

LEMMA MediaShowServices ==
  ASSUME Media!MediaAssumption, MediaInv, NEW r \in Requests, Media!ListServicePhotos(r)
  PROVE  /\ MediaLocal' /\ Only(r)
         /\ mediaTxn'[r] = [mediaTxn[r] EXCEPT !.pc = "done", !.answer = "ok",
               !.shown = mediaTxn[r].shown \cup UNION {Media!KeysOf(s) : s \in Pictured}]
<1> DEFINE x == mediaTxn[r]
<1> DEFINE y == mediaTxn'[r]
<1>1. MediaLocal /\ x \in MediaTxns /\ MediaCourse(x) /\ MediaValues(x) /\ MediaRows
  BY DEF MediaInv, MediaLocal, MediaFits
<1>2. y = [x EXCEPT !.pc = "done", !.answer = "ok",
           !.shown = x.shown \cup UNION {Media!KeysOf(s) : s \in Pictured}] /\ Only(r)
  BY <1>1 DEF Media!ListServicePhotos, Only, MediaLocal
<1>3. x.pc = "covers" /\ issued' = issued
  BY <1>1 DEF Media!ListServicePhotos
<1>4. /\ "done" \in MediaPcs /\ "ok" \in MediaAnswers
      /\ x.shown \cup UNION {Media!KeysOf(s) : s \in Pictured} \in SUBSET Media!Keys
  BY <1>1, <1>3, MediaGeneral DEF MediaPcs, MediaAnswers, Media!KeysOf, MediaRows, OfKind,
     Media!Galleries, MediaTxns, Photos
<1> HIDE DEF x, y
<1>5. /\ y.op = x.op /\ y.on = x.on /\ y.key = x.key /\ y.seen = x.seen /\ y.set = x.set
      /\ y.count = x.count /\ y.place = x.place /\ y.gone = x.gone
      /\ y.pc = "done" /\ y.answer = "ok"
      /\ y.shown = x.shown \cup UNION {Media!KeysOf(s) : s \in Pictured}
  BY <1>1, <1>2 DEF MediaTxns
<1>6. y \in MediaTxns
  <2>1. [x EXCEPT !.pc = "done"] \in MediaTxns
    BY <1>1, <1>4, MediaSetOne
  <2>2. [[x EXCEPT !.pc = "done"] EXCEPT !.answer = "ok"] \in MediaTxns
    BY <1>1, <1>4, <2>1, MediaSetOne
  <2>3. [[[x EXCEPT !.pc = "done"] EXCEPT !.answer = "ok"] EXCEPT !.shown = x.shown
         \cup UNION {Media!KeysOf(s) : s \in Pictured}] \in MediaTxns
    BY <1>1, <1>4, <2>2, MediaSetOne
  <2>4. QED
    BY <1>2, <2>3
<1>7. MediaCourse(y)
  BY <1>1, <1>3, <1>5 DEF MediaCourse
<1>8. MediaValues(mediaTxn[r])'
  BY <1>1, <1>3, <1>4, <1>5, MediaGeneral DEF MediaValues, MediaCourse, y
<1>9. MediaFits(mediaTxn[r])'
  BY <1>6, <1>7, <1>8 DEF MediaFits, y
<1>10. QED
  BY <1>1, <1>2, <1>9, MediaMove DEF Media!ListServicePhotos, x, y

LEMMA MediaBelow ==
  ASSUME Media!MediaAssumption, MediaInv, NEW r \in Requests, Media!CheckLimit(r),
         ~(Cardinality(photos[mediaTxn[r].on]) >= MaxPhotos)
  PROVE  /\ MediaLocal' /\ Only(r)
         /\ mediaTxn'[r] = [mediaTxn[r] EXCEPT !.pc = "place",
                            !.count = Cardinality(photos[mediaTxn[r].on])]
<1> DEFINE x == mediaTxn[r]
<1> DEFINE y == mediaTxn'[r]
<1>1. MediaLocal /\ x \in MediaTxns /\ MediaCourse(x) /\ MediaValues(x) /\ MediaRows
  BY DEF MediaInv, MediaLocal, MediaFits
<1>2. y = [x EXCEPT !.pc = "place", !.count = Cardinality(photos[x.on])] /\ Only(r)
  BY <1>1, MediaSizes DEF Media!CheckLimit, Only, MediaLocal
<1>3. x.pc = "limit" /\ issued' = issued
  BY <1>1 DEF Media!CheckLimit
<1>4. /\ "place" \in MediaPcs /\ Cardinality(photos[x.on]) \in Nat
      /\ Cardinality(photos[x.on]) < MaxPhotos
  BY <1>1, <1>3, MediaGeneral, MediaBounded DEF MediaPcs, MediaCourse, MediaValues, MediaRows,
     Media!MediaAssumption
<1> HIDE DEF x, y
<1>5. /\ y.op = x.op /\ y.on = x.on /\ y.key = x.key /\ y.seen = x.seen /\ y.set = x.set
      /\ y.place = x.place /\ y.gone = x.gone /\ y.shown = x.shown /\ y.answer = x.answer
      /\ y.pc = "place" /\ y.count = Cardinality(photos[x.on])
  BY <1>1, <1>2 DEF MediaTxns
<1>6. y \in MediaTxns
  <2>1. [x EXCEPT !.pc = "place"] \in MediaTxns
    BY <1>1, <1>4, MediaSetOne
  <2>2. [[x EXCEPT !.pc = "place"] EXCEPT !.count = Cardinality(photos[x.on])] \in MediaTxns
    BY <1>1, <1>4, <2>1, MediaSetOne
  <2>3. QED
    BY <1>2, <2>2
<1>7. MediaCourse(y)
  BY <1>1, <1>3, <1>5 DEF MediaCourse
<1>8. MediaValues(mediaTxn[r])'
  BY <1>1, <1>3, <1>4, <1>5, MediaGeneral DEF MediaValues, MediaCourse, y
<1>9. MediaFits(mediaTxn[r])'
  BY <1>6, <1>7, <1>8 DEF MediaFits, y
<1>10. QED
  BY <1>1, <1>2, <1>9, MediaMove, MediaSizes DEF Media!CheckLimit, x, y

LEMMA MediaInsert ==
  ASSUME Media!MediaAssumption, MediaInv, NEW r \in Requests, Media!InsertPhoto(r),
         ~Media!Taken(mediaTxn[r].key)
  PROVE  MediaLocal' /\ Only(r) /\ mediaTxn'[r] = [mediaTxn[r] EXCEPT !.pc = "written"]
<1> DEFINE x == mediaTxn[r]
<1> DEFINE y == mediaTxn'[r]
<1>1. MediaLocal /\ x \in MediaTxns /\ MediaCourse(x) /\ MediaValues(x) /\ MediaRows
  BY DEF MediaInv, MediaLocal, MediaFits
<1>2. y = [x EXCEPT !.pc = "written"] /\ Only(r)
  BY <1>1 DEF Media!InsertPhoto, Media!Goto, Only, MediaLocal
<1>3. x.pc = "insert" /\ issued' = issued
  BY <1>1 DEF Media!InsertPhoto, Media!Goto
<1>4. "written" \in MediaPcs
  BY <1>1, <1>3, MediaGeneral DEF MediaPcs
<1> HIDE DEF x, y
<1>5. /\ y.op = x.op /\ y.on = x.on /\ y.key = x.key /\ y.seen = x.seen /\ y.set = x.set
      /\ y.count = x.count /\ y.place = x.place /\ y.gone = x.gone /\ y.shown = x.shown
      /\ y.answer = x.answer
      /\ y.pc = "written"
  BY <1>1, <1>2 DEF MediaTxns
<1>6. y \in MediaTxns
  <2>1. [x EXCEPT !.pc = "written"] \in MediaTxns
    BY <1>1, <1>4, MediaSetOne
  <2>2. QED
    BY <1>2, <2>1
<1>7. MediaCourse(y)
  BY <1>1, <1>3, <1>5 DEF MediaCourse
<1>8. MediaValues(mediaTxn[r])'
  BY <1>1, <1>3, <1>4, <1>5, MediaGeneral DEF MediaValues, MediaCourse, y
<1>9. MediaFits(mediaTxn[r])'
  BY <1>6, <1>7, <1>8 DEF MediaFits, y
<1>10. QED
  BY <1>1, <1>2, <1>9, MediaMove DEF Media!InsertPhoto, Media!Goto, x, y


(* A request that is answered keeps what it was and what it let go.        *)
AnswerOf(x, a) == [x EXCEPT !.pc = "done", !.answer = a, !.set = FALSE, !.count = 0,
                            !.place = 0, !.seen = None]

LEMMA MediaAnswered ==
  ASSUME NEW x \in MediaTxns, NEW a \in MediaAnswers
  PROVE  /\ AnswerOf(x, a) \in MediaTxns
         /\ AnswerOf(x, a).pc = "done" /\ AnswerOf(x, a).answer = a
         /\ AnswerOf(x, a).op = x.op /\ AnswerOf(x, a).on = x.on /\ AnswerOf(x, a).key = x.key
         /\ AnswerOf(x, a).gone = x.gone /\ AnswerOf(x, a).shown = x.shown
         /\ AnswerOf(x, a).seen = None
<1> DEFINE u == [x EXCEPT !.pc = "done"]
<1> DEFINE v == [u EXCEPT !.answer = a]
<1> DEFINE w == [v EXCEPT !.set = FALSE]
<1> DEFINE y == [w EXCEPT !.count = 0]
<1> DEFINE z == [y EXCEPT !.place = 0]
<1>1. "done" \in MediaPcs
  BY DEF MediaPcs
<1>2. u \in MediaTxns
  BY <1>1, MediaSetOne
<1>3. v \in MediaTxns
  BY <1>2, MediaSetOne
<1>4. w \in MediaTxns
  BY <1>3, MediaSetOne
<1>5. y \in MediaTxns
  BY <1>4, MediaSetOne
<1>6. z \in MediaTxns
  BY <1>5, MediaSetOne
<1>7. [z EXCEPT !.seen = None] \in MediaTxns
  BY <1>6, MediaSetOne
<1>8. AnswerOf(x, a) = [z EXCEPT !.seen = None]
  BY DEF AnswerOf
<1>9. AnswerOf(x, a) \in MediaTxns
  BY <1>7, <1>8
<1>10. QED
  BY <1>9 DEF AnswerOf, MediaTxns

LEMMA MediaAnswer ==
  ASSUME Media!MediaAssumption, MediaInv, NEW r \in Requests,
         NEW a \in Media!Refusals \cup {"ok", "error"},
         mediaTxn[r].pc \in {"limit", "insert", "delete", "flush", "clean", "written"},
         Media!Answer(r, a), issued' = issued
  PROVE  MediaLocal' /\ Only(r) /\ mediaTxn'[r] = AnswerOf(mediaTxn[r], a)
<1>1. /\ MediaLocal /\ mediaTxn[r] \in MediaTxns /\ MediaCourse(mediaTxn[r])
      /\ MediaValues(mediaTxn[r])
      /\ MediaRows /\ a \in MediaAnswers /\ a # None
  BY MediaGeneral DEF MediaInv, MediaLocal, MediaFits, MediaAnswers
<1>2. mediaTxn' = [mediaTxn EXCEPT ![r] = AnswerOf(mediaTxn[r], a)]
  BY DEF Media!Answer, AnswerOf
<1>3. mediaTxn'[r] = AnswerOf(mediaTxn[r], a) /\ Only(r)
  BY <1>1, <1>2 DEF Only, MediaLocal
<1>4. /\ mediaTxn'[r] \in MediaTxns
      /\ mediaTxn'[r].pc = "done" /\ mediaTxn'[r].answer = a /\ mediaTxn'[r].op = mediaTxn[r].op
      /\ mediaTxn'[r].on = mediaTxn[r].on /\ mediaTxn'[r].key = mediaTxn[r].key
      /\ mediaTxn'[r].gone = mediaTxn[r].gone
      /\ mediaTxn'[r].seen = None
  BY <1>1, <1>3, MediaAnswered
<1>5. MediaCourse(mediaTxn'[r])
  BY <1>1, <1>4 DEF MediaCourse
<1>6. mediaTxn[r].key \in issued /\ mediaTxn[r].key # None
  BY <1>1, MediaGeneral DEF MediaValues, MediaCourse, MediaRows
<1>7. MediaValues(mediaTxn[r])'
  BY <1>1, <1>4, <1>6 DEF MediaValues, MediaCourse
<1>8. MediaFits(mediaTxn[r])'
  BY <1>4, <1>5, <1>7 DEF MediaFits
<1>9. QED
  BY <1>1, <1>2, <1>3, <1>8, MediaMove


LEMMA MediaPage ==
  ASSUME Media!MediaAssumption, MediaInv, NEW r \in Requests, Media!GetPublicSalon(r)
  PROVE  /\ MediaLocal' /\ Only(r)
         /\ mediaTxn[r].op = "none" /\ mediaTxn'[r].op = "page" /\ mediaTxn'[r].pc = "photos"
         /\ mediaTxn'[r].key = None /\ mediaTxn'[r].gone = None /\ mediaTxn'[r].seen = None
         /\ mediaTxn'[r].answer = None /\ mediaTxn'[r].shown = {logo}
<1>1. /\ MediaLocal /\ MediaRows /\ MediaCourse(mediaTxn[r]) /\ MediaValues(mediaTxn[r])
      /\ mediaTxn[r].pc = "new"
  BY DEF MediaInv, MediaLocal, MediaFits, Media!GetPublicSalon
<1> DEFINE u == [Media!New EXCEPT !.pc = "photos"]
<1> DEFINE v == [u EXCEPT !.op = "page"]
<1> DEFINE z == [v EXCEPT !.on = "salon"]
<1> DEFINE w == [z EXCEPT !.shown = {logo}]
<1>2. /\ "photos" \in MediaPcs /\ "page" \in MediaOps /\ "salon" \in Media!Galleries
      /\ {logo} \in SUBSET Media!Keys
  BY <1>1 DEF MediaPcs, MediaOps, Media!Galleries, MediaRows
<1>3. w \in MediaTxns
  <2>1. u \in MediaTxns
    BY <1>2, MediaNew, MediaSetOne
  <2>2. v \in MediaTxns
    BY <1>2, <2>1, MediaSetOne
  <2>3. z \in MediaTxns
    BY <1>2, <2>2, MediaSetOne
  <2>4. QED
    BY <1>2, <2>3, MediaSetOne
<1>4. mediaTxn' = [mediaTxn EXCEPT ![r] = w]
  BY DEF Media!GetPublicSalon
<1>5. mediaTxn'[r] = w /\ Only(r)
  BY <1>1, <1>4 DEF MediaLocal, Only
<1>6. /\ w.pc = "photos" /\ w.op = "page" /\ w.key = None /\ w.gone = None /\ w.seen = None
      /\ w.answer = None /\ w.shown = {logo}
  BY DEF Media!New
<1> HIDE DEF u, v, z, w
<1>7. MediaCourse(mediaTxn'[r])
  BY <1>5, <1>6 DEF MediaCourse
<1>8. MediaValues(mediaTxn[r])'
  BY <1>5, <1>6 DEF MediaValues
<1>9. MediaFits(mediaTxn[r])'
  BY <1>3, <1>5, <1>7, <1>8 DEF MediaFits
<1>10. MediaLocal'
  BY <1>1, <1>4, <1>5, <1>9, MediaMove DEF Media!GetPublicSalon
<1>11. mediaTxn[r].op = "none"
  BY <1>1 DEF MediaCourse
<1>12. QED
  BY <1>5, <1>6, <1>10, <1>11

(* What a request does that commits nothing and deletes nothing.           *)
QuietStep(r) ==
  \/ Media!Receive(r) \/ Media!FindSalon(r) \/ Media!LoadSalon(r) \/ Media!FlushLogo(r)
       \/ Media!CheckLimit(r)
  \/ Media!CountPhotos(r) \/ Media!InsertPhoto(r) \/ Media!DeletePhoto(r) \/ Media!Show(r)
       \/ Media!Abort(r)

Moved(r, x, y) ==
  /\ x.answer = None
  /\ x.op # "none" => y.op = x.op /\ y.on = x.on /\ y.key = x.key
  /\ x.op = "none" /\ y.key # None =>
       /\ y.op \in {"logo", "add"} => y.key \in bucket
       /\ y.op = "remove" => y.on \in Media!Galleries /\ y.key \in Media!KeysOf(y.on)
  /\ y.gone = x.gone
  /\ y.seen \in {x.seen, None, logo}
  /\ y.shown \subseteq x.shown \cup Media!Referenced
  /\ y.answer = "ok" => y.op = "page"
  /\ y.op = "logo" /\ y.pc \in {"flush", "clean", "written"} =>
       /\ x.op = "logo" /\ y.seen = x.seen
       /\ \/ x.pc \in {"flush", "clean", "written"} /\ y.set = x.set
          \/ y.set = (logo # x.key)
  /\ y.op \in {"add", "remove"} /\ y.pc \in {"clean", "written"} =>
       x.op # "none" /\ Media!Contenders(r) = {}
  /\ y.op = "add" /\ y.pc = "written" => ~Media!Taken(y.key)

LEMMA MediaReceive ==
  ASSUME Media!MediaAssumption, MediaInv, NEW r \in Requests, Media!Receive(r)
  PROVE  /\ MediaLocal' /\ Only(r) /\ Moved(r, mediaTxn[r], mediaTxn'[r])
         /\ UNCHANGED <<logo, photos, bucket, issued>>
<1>1. /\ MediaLocal /\ MediaRows /\ MediaCourse(mediaTxn[r]) /\ MediaValues(mediaTxn[r])
  BY DEF MediaInv, MediaLocal, MediaFits
<1>2. mediaTxn[r].pc = "new" /\ UNCHANGED <<logo, photos, bucket, issued>>
  BY DEF Media!Receive, Media!SetLogo, Media!AddSalonPhoto, Media!AddServicePhoto,
     Media!RemoveSalonPhoto, Media!RemoveServicePhoto,
         Media!Begin, Media!Refuse, Media!GetPublicSalon, Media!rows
<1>3. /\ mediaTxn[r] = Media!New /\ Media!New.op = "none" /\ Media!New.gone = None
      /\ Media!New.seen = None /\ Media!New.answer = None
      /\ Media!New.shown = {}
  BY <1>1, <1>2 DEF MediaCourse, Media!New
<1>4. ASSUME NEW op \in {"logo", "add", "remove"}, NEW on \in Media!Galleries \cup {None},
             NEW a \in Media!Refusals, Media!Refuse(r, op, on, a)
      PROVE  MediaLocal' /\ Only(r) /\ Moved(r, mediaTxn[r], mediaTxn'[r])
  <2>1. MediaLocal' /\ Only(r) /\ Begun(mediaTxn'[r], "done", op, on, None, a)
    BY <1>4, MediaRefuse
  <2>2. a # "ok"
    BY DEF Media!Refusals
  <2>3. QED
    BY <1>3, <2>1, <2>2 DEF Moved, Begun
<1>5. ASSUME NEW op \in {"logo", "add"}, NEW on \in Media!Galleries, NEW k \in bucket,
             NEW pc \in {"find", "limit"},
             op = "logo" => pc = "find" /\ k[1] = "logo" /\ on = "salon",
             op = "add" => pc = "limit" /\ k[1] = Media!Kind(on), Media!Begin(r, op, on, k, pc)
      PROVE  MediaLocal' /\ Only(r) /\ Moved(r, mediaTxn[r], mediaTxn'[r])
  <2>1. MediaLocal' /\ Only(r) /\ Begun(mediaTxn'[r], pc, op, on, k, None)
    BY <1>1, <1>5, MediaBegin DEF MediaRows
  <2>2. QED
    BY <1>3, <1>5, <2>1, MediaGeneral DEF Moved, Begun
<1>6. ASSUME NEW on \in Media!Galleries, NEW k \in Media!KeysOf(on),
             Media!Begin(r, "remove", on, k, "delete")
      PROVE  MediaLocal' /\ Only(r) /\ Moved(r, mediaTxn[r], mediaTxn'[r])
  <2>1. k \in issued /\ k[1] = Media!Kind(on)
    BY <1>1 DEF MediaRows, Media!KeysOf, OfKind
  <2>2. MediaLocal' /\ Only(r) /\ Begun(mediaTxn'[r], "delete", "remove", on, k, None)
    BY <1>6, <2>1, MediaBegin
  <2>3. QED
    BY <1>3, <1>6, <2>2, MediaGeneral DEF Moved, Begun
<1>7. /\ "salon" \in Media!Galleries /\ Pictured \subseteq Media!Galleries
      /\ Media!Kind("salon") = "photo"
  BY DEF Media!Galleries, Media!Kind
<1>8. ASSUME NEW k \in bucket, Media!SetLogo(r, k) \/ Media!AddSalonPhoto(r, k)
      PROVE  MediaLocal' /\ Only(r) /\ Moved(r, mediaTxn[r], mediaTxn'[r])
  <2>1. "MediaKeyMismatch" \in Media!Refusals
    BY DEF Media!Refusals
  <2>2. CASE Media!SetLogo(r, k) /\ k[1] = "logo"
    BY <1>5, <1>7, <2>2 DEF Media!SetLogo
  <2>3. CASE Media!SetLogo(r, k) /\ k[1] # "logo"
    BY <1>4, <1>7, <2>1, <2>3 DEF Media!SetLogo
  <2>4. CASE Media!AddSalonPhoto(r, k) /\ k[1] = "photo"
    BY <1>5, <1>7, <2>4 DEF Media!AddSalonPhoto
  <2>5. CASE Media!AddSalonPhoto(r, k) /\ k[1] # "photo"
    BY <1>4, <1>7, <2>1, <2>5 DEF Media!AddSalonPhoto
  <2>6. QED
    BY <1>8, <2>2, <2>3, <2>4, <2>5
<1>9. ASSUME NEW k \in bucket, NEW s \in Pictured \cup {None}, Media!AddServicePhoto(r, s, k)
      PROVE  MediaLocal' /\ Only(r) /\ Moved(r, mediaTxn[r], mediaTxn'[r])
  <2>1. "MediaKeyMismatch" \in Media!Refusals /\ "ServiceNotFound" \in Media!Refusals
        /\ s \in Media!Galleries \cup {None}
    BY <1>7 DEF Media!Refusals
  <2>2. CASE k[1] # "service"
    BY <1>4, <1>9, <2>1, <2>2 DEF Media!AddServicePhoto
  <2>3. CASE k[1] = "service" /\ s = None
    BY <1>4, <1>9, <2>1, <2>3 DEF Media!AddServicePhoto
  <2>4. CASE k[1] = "service" /\ s # None
    <3>1. s \in Media!Galleries /\ Media!Begin(r, "add", s, k, "limit")
      BY <1>7, <1>9, <2>4 DEF Media!AddServicePhoto
    <3>2. Media!Kind(s) = "service"
      BY <2>4 DEF Media!MediaAssumption, Media!Kind
    <3>3. QED
      BY <1>5, <2>4, <3>1, <3>2
  <2>5. QED
    BY <2>2, <2>3, <2>4
<1>10. ASSUME NEW k \in issued,
              Media!RemoveSalonPhoto(r, k) \/ \E s \in Pictured : Media!RemoveServicePhoto(r, s, k)
       PROVE  MediaLocal' /\ Only(r) /\ Moved(r, mediaTxn[r], mediaTxn'[r])
  <2>1. "SalonNotFound" \in Media!Refusals /\ "ServiceNotFound" \in Media!Refusals
    BY DEF Media!Refusals
  <2>2. PICK g \in Media!Galleries : \/ k \in Media!KeysOf(g)
                                          /\ Media!Begin(r, "remove", g, k, "delete")
                             \/ Media!Refuse(r, "remove", g, "SalonNotFound")
                             \/ Media!Refuse(r, "remove", g, "ServiceNotFound")
    BY <1>7, <1>10 DEF Media!RemoveSalonPhoto, Media!RemoveServicePhoto
  <2>3. QED
    BY <1>4, <1>6, <2>1, <2>2
<1>11. CASE Media!GetPublicSalon(r)
  <2>1. /\ MediaLocal' /\ Only(r)
        /\ mediaTxn'[r].op = "page" /\ mediaTxn'[r].pc = "photos" /\ mediaTxn'[r].key = None
        /\ mediaTxn'[r].gone = None /\ mediaTxn'[r].seen = None /\ mediaTxn'[r].answer = None
        /\ mediaTxn'[r].shown = {logo}
    BY <1>11, MediaPage
  <2>2. logo \in Media!Referenced
    BY DEF Media!Referenced
  <2>3. QED
    BY <1>2, <1>3, <2>1, <2>2, MediaGeneral DEF Moved
<1>12. QED
  BY <1>2, <1>8, <1>9, <1>10, <1>11 DEF Media!Receive

(* The steps of a request that was received: what each leaves.             *)
LEMMA MediaQuiet ==
  ASSUME Media!MediaAssumption, MediaInv, NEW r \in Requests, QuietStep(r)
  PROVE  /\ MediaLocal' /\ Only(r) /\ Moved(r, mediaTxn[r], mediaTxn'[r])
         /\ UNCHANGED <<logo, photos, bucket, issued>>
<1> DEFINE x == mediaTxn[r]
<1> DEFINE y == mediaTxn'[r]
<1>1. /\ MediaLocal /\ MediaRows /\ x \in MediaTxns /\ MediaCourse(x) /\ MediaValues(x)
  BY DEF MediaInv, MediaLocal, MediaFits
<1>2. /\ logo \in Media!Referenced
      /\ \A g \in Media!Galleries : Media!KeysOf(g) \subseteq Media!Referenced
  BY DEF Media!Referenced
<1>3. CASE Media!FindSalon(r)
  <2>1. MediaLocal' /\ Only(r) /\ y = [x EXCEPT !.pc = "load", !.seen = logo] /\ x.pc = "find"
    BY <1>3, MediaFind DEF Media!FindSalon
  <2> HIDE DEF x, y
  <2>2. /\ x.op # "none" /\ y.op = x.op /\ y.on = x.on /\ y.key = x.key /\ y.gone = x.gone
        /\ y.seen = logo /\ y.shown = x.shown /\ y.answer = None /\ x.answer = None /\ y.pc = "load"
    BY <1>1, <2>1 DEF MediaTxns, MediaCourse, MediaValues
  <2>3. Moved(r, x, y)
    BY <2>2, MediaGeneral DEF Moved
  <2>4. QED
    BY <1>3, <2>1, <2>3 DEF Media!FindSalon, Media!rows, x, y
<1>4. CASE Media!LoadSalon(r)
  <2>1. /\ MediaLocal' /\ Only(r) /\ y = [x EXCEPT !.pc = "flush", !.set = (logo # x.key)]
        /\ x.pc = "load"
    BY <1>4, MediaLoad DEF Media!LoadSalon
  <2> HIDE DEF x, y
  <2>2. /\ x.op # "none" /\ y.op = x.op /\ y.on = x.on /\ y.key = x.key /\ y.gone = x.gone
        /\ x.answer = None /\ y.seen = x.seen /\ y.shown = x.shown /\ y.answer = None
        /\ x.op = "logo" /\ y.set = (logo # x.key)
    BY <1>1, <2>1 DEF MediaTxns, MediaCourse, MediaValues
  <2>3. Moved(r, x, y)
    BY <1>2, <2>2, MediaGeneral DEF Moved
  <2>4. QED
    BY <1>4, <2>1, <2>3 DEF Media!LoadSalon, Media!rows, x, y
<1>5. CASE Media!FlushLogo(r)
  <2>1. /\ MediaLocal' /\ Only(r)
        /\ y = [x EXCEPT !.pc = IF x.seen = x.key THEN "written" ELSE "clean"] /\ x.pc = "flush"
    BY <1>5, MediaFlush DEF Media!FlushLogo
  <2> HIDE DEF x, y
  <2>2. /\ x.op # "none" /\ y.op = x.op /\ y.on = x.on /\ y.key = x.key /\ y.gone = x.gone
        /\ x.answer = None /\ y.seen = x.seen /\ y.shown = x.shown /\ y.answer = None
        /\ x.op = "logo" /\ x.pc = "flush" /\ y.set = x.set
    BY <1>1, <2>1 DEF MediaTxns, MediaCourse, MediaValues
  <2>3. Moved(r, x, y)
    BY <1>2, <2>2, MediaGeneral DEF Moved
  <2>4. QED
    BY <1>5, <2>1, <2>3 DEF Media!FlushLogo, Media!rows, x, y
<1>6. CASE Media!CountPhotos(r)
  <2>1. /\ MediaLocal' /\ Only(r)
        /\ y = [x EXCEPT !.pc = "insert", !.place = Cardinality(photos[x.on])] /\ x.pc = "place"
    BY <1>6, MediaCount DEF Media!CountPhotos
  <2> HIDE DEF x, y
  <2>2. /\ x.op # "none" /\ y.op = x.op /\ y.on = x.on /\ y.key = x.key /\ y.gone = x.gone
        /\ x.answer = None /\ y.seen = x.seen /\ y.shown = x.shown /\ y.answer = None
        /\ x.op = "add" /\ y.pc = "insert"
    BY <1>1, <2>1 DEF MediaTxns, MediaCourse, MediaValues
  <2>3. Moved(r, x, y)
    BY <1>2, <2>2, MediaGeneral DEF Moved
  <2>4. QED
    BY <1>6, <2>1, <2>3 DEF Media!CountPhotos, Media!rows, x, y
<1>7. CASE Media!ListPhotos(r)
  <2>1. /\ MediaLocal' /\ Only(r)
        /\ y = [x EXCEPT !.pc = "covers", !.shown = x.shown \cup Media!KeysOf("salon")]
        /\ x.pc = "photos"
    BY <1>7, MediaShowPhotos DEF Media!ListPhotos
  <2> HIDE DEF x, y
  <2>2. /\ x.op # "none" /\ y.op = x.op /\ y.on = x.on /\ y.key = x.key /\ y.gone = x.gone
        /\ x.answer = None /\ y.seen = x.seen /\ y.shown = x.shown \cup Media!KeysOf("salon")
        /\ y.answer = None
        /\ x.op = "page"
    BY <1>1, <2>1 DEF MediaTxns, MediaCourse, MediaValues
  <2>3. Moved(r, x, y)
    BY <1>2, <2>2, MediaGeneral DEF Moved, Media!Galleries
  <2>4. QED
    BY <1>7, <2>1, <2>3 DEF Media!ListPhotos, Media!rows, x, y
<1>8. CASE Media!ListServicePhotos(r)
  <2>1. MediaLocal' /\ Only(r) /\ y = [x EXCEPT !.pc = "done", !.answer = "ok",
                                                  !.shown = x.shown
                                                    \cup UNION {Media!KeysOf(s) : s \in Pictured}]
                                                      /\ x.pc = "covers"
    BY <1>8, MediaShowServices DEF Media!ListServicePhotos
  <2> HIDE DEF x, y
  <2>2. /\ x.op # "none" /\ y.op = x.op /\ y.on = x.on /\ y.key = x.key /\ y.gone = x.gone
        /\ x.answer = None /\ y.seen = x.seen /\ y.answer = "ok"
        /\ y.shown = x.shown \cup UNION {Media!KeysOf(s) : s \in Pictured} /\ x.op = "page"
    BY <1>1, <2>1 DEF MediaTxns, MediaCourse, MediaValues
  <2>3. Moved(r, x, y)
    BY <1>2, <2>2, MediaGeneral DEF Moved, Media!Galleries
  <2>4. QED
    BY <1>8, <2>1, <2>3 DEF Media!ListServicePhotos, Media!rows, x, y
<1>9. CASE Media!DeletePhoto(r)
  <2>1. MediaLocal' /\ Only(r) /\ y = [x EXCEPT !.pc = "clean"] /\ x.pc = "delete"
    BY <1>9, MediaDelete DEF Media!DeletePhoto
  <2> HIDE DEF x, y
  <2>2. /\ x.op # "none" /\ y.op = x.op /\ y.on = x.on /\ y.key = x.key /\ y.gone = x.gone
        /\ x.answer = None /\ y.seen = x.seen /\ y.shown = x.shown /\ y.answer = None
        /\ x.op = "remove" /\ y.pc = "clean"
    BY <1>1, <2>1 DEF MediaTxns, MediaCourse, MediaValues
  <2>3. Moved(r, x, y)
    BY <1>2, <1>9, <2>2, MediaGeneral DEF Moved, Media!DeletePhoto
  <2>4. QED
    BY <1>9, <2>1, <2>3 DEF Media!DeletePhoto, Media!rows, x, y
<1>10. ASSUME NEW a \in Media!Refusals \cup {"ok", "error"}, a # "ok", Media!Answer(r, a),
              x.pc \in {"limit", "insert", "delete", "flush", "clean", "written"},
              UNCHANGED <<Media!rows, bucket, issued>>
       PROVE  /\ MediaLocal' /\ Only(r) /\ Moved(r, x, y)
              /\ UNCHANGED <<logo, photos, bucket, issued>>
  <2>1. a \in MediaAnswers
    BY <1>10 DEF MediaAnswers
  <2>2. MediaLocal' /\ Only(r) /\ y = AnswerOf(x, a)
    BY <1>10, MediaAnswer
  <2> HIDE DEF x, y
  <2>3. /\ y.pc = "done" /\ y.answer = a /\ y.op = x.op /\ y.on = x.on /\ y.key = x.key
        /\ y.gone = x.gone /\ y.shown = x.shown /\ y.seen = None
    BY <1>1, <2>1, <2>2, MediaAnswered
  <2>4. x.op # "none" /\ x.answer = None
    BY <1>1, <1>10 DEF MediaCourse, MediaValues
  <2>5. Moved(r, x, y)
    BY <1>10, <2>3, <2>4 DEF Moved
  <2>6. QED
    BY <1>10, <2>2, <2>5 DEF Media!rows
<1>11. CASE Media!Abort(r)
  BY <1>10, <1>11 DEF Media!Abort, Media!rows
<1>12. CASE Media!CheckLimit(r)
  <2>1. CASE Cardinality(photos[x.on]) >= MaxPhotos
    BY <1>10, <1>12, <2>1, MediaSizes DEF Media!CheckLimit, Media!rows, Media!Refusals
  <2>2. CASE ~(Cardinality(photos[x.on]) >= MaxPhotos)
    <3>1. MediaLocal' /\ Only(r) /\ x.pc = "limit"
          /\ y = [x EXCEPT !.pc = "place", !.count = Cardinality(photos[x.on])]
      BY <1>12, <2>2, MediaBelow DEF Media!CheckLimit
    <3> HIDE DEF x, y
    <3>2. /\ x.op = "add" /\ y.op = x.op /\ y.on = x.on /\ y.key = x.key /\ y.gone = x.gone
          /\ x.answer = None /\ y.seen = x.seen /\ y.shown = x.shown /\ y.answer = None
          /\ y.pc = "place"
      BY <1>1, <3>1 DEF MediaTxns, MediaCourse, MediaValues
    <3>3. Moved(r, x, y)
      BY <3>2, MediaGeneral DEF Moved
    <3>4. QED
      BY <1>12, <3>1, <3>3 DEF Media!CheckLimit, Media!rows, x, y
  <2>3. QED
    BY <2>1, <2>2
<1>13. CASE Media!InsertPhoto(r)
  <2>1. CASE Media!Taken(x.key)
    BY <1>10, <1>13, <2>1 DEF Media!InsertPhoto, Media!rows
  <2>2. CASE ~Media!Taken(x.key)
    <3>1. MediaLocal' /\ Only(r) /\ x.pc = "insert" /\ Media!Contenders(r) = {}
          /\ y = [x EXCEPT !.pc = "written"]
      BY <1>13, <2>2, MediaInsert DEF Media!InsertPhoto
    <3> HIDE DEF x, y
    <3>2. /\ x.op = "add" /\ y.op = x.op /\ y.on = x.on /\ y.key = x.key /\ y.gone = x.gone
          /\ x.answer = None /\ y.seen = x.seen /\ y.shown = x.shown /\ y.answer = None
          /\ y.pc = "written"
      BY <1>1, <3>1 DEF MediaTxns, MediaCourse, MediaValues
    <3>3. Moved(r, x, y)
      BY <2>2, <3>1, <3>2, MediaGeneral DEF Moved
    <3>4. QED
      BY <1>13, <3>1, <3>3 DEF Media!InsertPhoto, Media!rows, x, y
  <2>3. QED
    BY <2>1, <2>2
<1>14. CASE Media!Receive(r)
  BY <1>14, MediaReceive
<1>15. QED
  BY <1>3, <1>4, <1>5, <1>6, <1>7, <1>8, <1>9, <1>11, <1>12, <1>13, <1>14 DEF QuietStep, Media!Show

Committing(r) == Media!CommitLogo(r) \/ Media!CommitAddition(r) \/ Media!CommitRemoval(r)

LEMMA MediaCommitted ==
  ASSUME Media!MediaAssumption, MediaInv, NEW r \in Requests, Committing(r)
  PROVE  /\ MediaLocal' /\ Only(r) /\ UNCHANGED <<bucket, issued>>
         /\ mediaTxn[r].pc = "written" /\ mediaTxn[r].op \in {"logo", "add", "remove"}
         /\ mediaTxn[r].answer = None /\ mediaTxn[r].key \in issued
         /\ mediaTxn'[r].pc = "done" /\ mediaTxn'[r].answer = "ok"
         /\ mediaTxn'[r].op = mediaTxn[r].op
         /\ mediaTxn'[r].on = mediaTxn[r].on /\ mediaTxn'[r].key = mediaTxn[r].key
         /\ mediaTxn'[r].gone = mediaTxn[r].gone /\ mediaTxn'[r].shown = mediaTxn[r].shown
         /\ mediaTxn'[r].seen = None
<1>1. /\ MediaLocal /\ mediaTxn[r] \in MediaTxns /\ MediaValues(mediaTxn[r])
  BY DEF MediaInv, MediaLocal, MediaFits
<1>2. /\ mediaTxn[r].pc = "written" /\ mediaTxn[r].op \in {"logo", "add", "remove"}
      /\ Media!Answer(r, "ok") /\ UNCHANGED <<bucket, issued>>
  BY DEF Committing, Media!CommitLogo, Media!CommitAddition, Media!CommitRemoval
<1>3. MediaLocal' /\ Only(r) /\ mediaTxn'[r] = AnswerOf(mediaTxn[r], "ok")
  BY <1>2, MediaAnswer
<1>4. "ok" \in MediaAnswers
  BY DEF MediaAnswers
<1>5. /\ mediaTxn'[r].pc = "done" /\ mediaTxn'[r].answer = "ok" /\ mediaTxn'[r].op = mediaTxn[r].op
      /\ mediaTxn'[r].on = mediaTxn[r].on /\ mediaTxn'[r].key = mediaTxn[r].key
      /\ mediaTxn'[r].gone = mediaTxn[r].gone /\ mediaTxn'[r].shown = mediaTxn[r].shown
      /\ mediaTxn'[r].seen = None
  BY <1>1, <1>3, <1>4, MediaAnswered
<1>6. QED
  BY <1>1, <1>2, <1>3, <1>5 DEF MediaValues

LEMMA MediaCleaned ==
  ASSUME Media!MediaAssumption, MediaInv, NEW r \in Requests, Media!Clean(r)
  PROVE  /\ MediaLocal' /\ Only(r) /\ UNCHANGED <<logo, photos, issued>>
         /\ mediaTxn[r].pc = "clean" /\ mediaTxn'[r].pc = "written"
         /\ mediaTxn[r].op \in {"logo", "remove"} /\ mediaTxn'[r].op = mediaTxn[r].op
         /\ mediaTxn'[r].on = mediaTxn[r].on /\ mediaTxn'[r].key = mediaTxn[r].key
         /\ mediaTxn'[r].set = mediaTxn[r].set
         /\ mediaTxn'[r].seen = mediaTxn[r].seen /\ mediaTxn'[r].shown = mediaTxn[r].shown
         /\ mediaTxn[r].answer = None /\ mediaTxn'[r].answer = None /\ mediaTxn[r].gone = None
         /\ mediaTxn'[r].gone = IF mediaTxn[r].op = "logo" THEN mediaTxn[r].seen
              ELSE mediaTxn[r].key
         /\ bucket' = bucket \ {mediaTxn'[r].gone}
<1> DEFINE x == mediaTxn[r]
<1> DEFINE y == mediaTxn'[r]
<1> DEFINE old == IF x.op = "logo" THEN x.seen ELSE x.key
<1>1. /\ x \in MediaTxns /\ MediaCourse(x) /\ MediaValues(x)
  BY DEF MediaInv, MediaLocal, MediaFits
<1>2. MediaLocal' /\ Only(r) /\ y = [x EXCEPT !.pc = "written", !.gone = old]
  BY MediaClean
<1>3. x.pc = "clean" /\ UNCHANGED <<logo, photos, issued>> /\ bucket' = bucket \ {old}
  BY DEF Media!Clean, Media!rows
<1> HIDE DEF x, y, old
<1>4. /\ y.pc = "written" /\ y.gone = old /\ y.op = x.op /\ y.on = x.on /\ y.key = x.key
      /\ y.set = x.set /\ y.seen = x.seen /\ y.shown = x.shown /\ y.answer = x.answer
  BY <1>1, <1>2 DEF MediaTxns
<1>5. x.op \in {"logo", "remove"} /\ x.answer = None /\ x.gone = None
  BY <1>1, <1>3 DEF MediaCourse, MediaValues
<1>6. QED
  BY <1>2, <1>3, <1>4, <1>5 DEF x, y, old

Issue == \E kind \in {"logo", "photo", "service"} : Media!IssueMediaUploadUrl(kind)

LEMMA MediaCases ==
  ASSUME Media!Next
  PROVE  \/ Issue \/ \E k \in Media!Keys : Media!Upload(k)
         \/ \E r \in Requests : QuietStep(r) \/ Media!Clean(r) \/ Committing(r)
  BY DEF Media!Next, Issue, Media!IssueServiceImageUploadUrl, Media!Attach, Media!Add, Media!Remove,
     Media!Show, QuietStep, Committing

(* What no step takes from a request.                                      *)
Steady(q) ==
  /\ mediaTxn[q].op # "none" =>
       mediaTxn'[q].op = mediaTxn[q].op /\ mediaTxn'[q].on = mediaTxn[q].on
         /\ mediaTxn'[q].key = mediaTxn[q].key
  /\ mediaTxn[q].gone # None => mediaTxn'[q].gone = mediaTxn[q].gone
  /\ mediaTxn[q].answer # None => mediaTxn'[q] = mediaTxn[q]
  /\ mediaTxn[q].op = "none" /\ mediaTxn'[q].op \in {"logo", "add"} /\ mediaTxn'[q].key # None =>
       mediaTxn'[q].key \in bucket

Emptied == \A k \in bucket : k \in bucket' \/ \E q \in Requests : mediaTxn'[q].gone = k

LEMMA MediaSteady ==
  ASSUME Media!MediaAssumption, MediaInv, [Media!Next]_Media!vars
  PROVE  MediaLocal' /\ Emptied /\ issued \subseteq issued' /\ \A q \in Requests : Steady(q)
<1>1. MediaLocal
  BY DEF MediaInv
<1>2. ASSUME mediaTxn' = mediaTxn, issued \subseteq issued', bucket \subseteq bucket'
      PROVE  MediaLocal' /\ Emptied /\ issued \subseteq issued' /\ \A q \in Requests : Steady(q)
  <2>1. MediaLocal'
    BY <1>1, <1>2 DEF MediaLocal, MediaFits, MediaValues
  <2>2. \A q \in Requests : mediaTxn[q].op = "none" => mediaTxn[q].key = None
    BY <1>1 DEF MediaLocal, MediaFits, MediaCourse, Media!New
  <2>3. QED
    BY <1>2, <2>1, <2>2 DEF Emptied, Steady
<1>3. ASSUME NEW r \in Requests, Only(r), Steady(r)
      PROVE  \A q \in Requests : Steady(q)
  <2>1. \A q \in Requests : mediaTxn[q].op = "none" => mediaTxn[q].key = None
    BY <1>1 DEF MediaLocal, MediaFits, MediaCourse, Media!New
  <2>2. QED
    BY <1>3, <2>1 DEF Only, Steady
<1>4. CASE UNCHANGED Media!vars
  BY <1>2, <1>4 DEF Media!vars
<1>5. CASE Issue
  BY <1>2, <1>5 DEF Issue, Media!IssueMediaUploadUrl
<1>6. ASSUME NEW k \in Media!Keys, Media!Upload(k)
      PROVE  MediaLocal' /\ Emptied /\ issued \subseteq issued' /\ \A q \in Requests : Steady(q)
  BY <1>2, <1>6 DEF Media!Upload
<1>7. ASSUME NEW r \in Requests, QuietStep(r)
      PROVE  MediaLocal' /\ Emptied /\ issued \subseteq issued' /\ \A q \in Requests : Steady(q)
  <2>1. /\ MediaLocal' /\ Only(r) /\ Moved(r, mediaTxn[r], mediaTxn'[r])
        /\ UNCHANGED <<logo, photos, bucket, issued>>
    BY <1>7, MediaQuiet
  <2>2. Steady(r)
    BY <2>1 DEF Moved, Steady
  <2>3. QED
    BY <1>3, <2>1, <2>2 DEF Emptied
<1>8. ASSUME NEW r \in Requests, Media!Clean(r)
      PROVE  MediaLocal' /\ Emptied /\ issued \subseteq issued' /\ \A q \in Requests : Steady(q)
  <2>1. /\ MediaLocal' /\ Only(r) /\ UNCHANGED <<logo, photos, issued>>
        /\ mediaTxn[r].op \in {"logo", "remove"} /\ mediaTxn'[r].op = mediaTxn[r].op
        /\ mediaTxn'[r].on = mediaTxn[r].on /\ mediaTxn'[r].key = mediaTxn[r].key
        /\ mediaTxn[r].answer = None /\ mediaTxn[r].gone = None
        /\ bucket' = bucket \ {mediaTxn'[r].gone}
    BY <1>8, MediaCleaned
  <2>2. Steady(r)
    BY <2>1 DEF Steady
  <2>3. QED
    BY <1>3, <2>1, <2>2 DEF Emptied
<1>9. ASSUME NEW r \in Requests, Committing(r)
      PROVE  MediaLocal' /\ Emptied /\ issued \subseteq issued' /\ \A q \in Requests : Steady(q)
  <2>1. /\ MediaLocal' /\ Only(r) /\ UNCHANGED <<bucket, issued>>
        /\ mediaTxn[r].op \in {"logo", "add", "remove"}
        /\ mediaTxn[r].answer = None /\ mediaTxn'[r].op = mediaTxn[r].op
        /\ mediaTxn'[r].on = mediaTxn[r].on /\ mediaTxn'[r].key = mediaTxn[r].key
        /\ mediaTxn'[r].gone = mediaTxn[r].gone
    BY <1>9, MediaCommitted
  <2>2. Steady(r)
    BY <2>1 DEF Steady
  <2>3. QED
    BY <1>3, <2>1, <2>2 DEF Emptied
<1>10. QED
  BY <1>4, <1>5, <1>6, <1>7, <1>8, <1>9, MediaCases

LEMMA MediaRowsStep ==
  ASSUME Media!MediaAssumption, MediaInv, [Media!Next]_Media!vars
  PROVE  MediaRows'
<1>1. /\ MediaRows /\ MediaLocal
  BY DEF MediaInv
<1>2. ASSUME UNCHANGED <<logo, photos, issued>>, bucket' \subseteq issued
      PROVE  MediaRows'
  BY <1>1, <1>2 DEF MediaRows, OfKind, OncePerKey
<1>3. CASE UNCHANGED Media!vars
  BY <1>1, <1>2, <1>3 DEF Media!vars, MediaRows
<1>4. CASE Issue
  <2>1. PICK kind \in {"logo", "photo", "service"} : Media!IssueMediaUploadUrl(kind)
    BY <1>4 DEF Issue
  <2>2. Cardinality(issued) \in Nat /\ Cardinality(issued) <= MaxUploads
    BY <1>1, <2>1, FS_CardinalityType, MediaSizes DEF MediaRows, Media!IssueMediaUploadUrl
  <2>3. Media!FreshKey(kind) \in Media!Keys
    BY <2>2, MediaSizes DEF Media!FreshKey, Media!Keys, Media!MediaAssumption
  <2>4. /\ IsFiniteSet(issued \cup {Media!FreshKey(kind)})
        /\ Cardinality(issued \cup {Media!FreshKey(kind)}) <= MaxUploads + 1
    <3>1. IsFiniteSet(issued)
      BY <1>1 DEF MediaRows
    <3>2. /\ IsFiniteSet(issued \cup {Media!FreshKey(kind)})
          /\ \/ Cardinality(issued \cup {Media!FreshKey(kind)}) = Cardinality(issued)
             \/ Cardinality(issued \cup {Media!FreshKey(kind)}) = Cardinality(issued) + 1
      BY <3>1, FS_AddElement
    <3>3. QED
      BY <2>2, <3>2 DEF Media!MediaAssumption
  <2>5. /\ issued' = issued \cup {Media!FreshKey(kind)} /\ UNCHANGED <<logo, photos, bucket>>
    BY <2>1 DEF Media!IssueMediaUploadUrl, Media!rows
  <2>6. \A g \in Media!Galleries : OfKind(g)' /\ OncePerKey(g)'
    BY <1>1, <2>5 DEF MediaRows, OfKind, OncePerKey
  <2>7. QED
    BY <1>1, <2>3, <2>4, <2>5, <2>6 DEF MediaRows
<1>5. ASSUME NEW k \in Media!Keys, Media!Upload(k) PROVE MediaRows'
  BY <1>1, <1>2, <1>5 DEF Media!Upload, MediaRows, Media!rows
<1>6. ASSUME NEW r \in Requests, QuietStep(r) PROVE MediaRows'
  BY <1>1, <1>2, <1>6, MediaQuiet DEF MediaRows
<1>7. ASSUME NEW r \in Requests, Media!Clean(r) PROVE MediaRows'
  BY <1>1, <1>2, <1>7, MediaCleaned DEF MediaRows
<1>8. ASSUME NEW r \in Requests, Committing(r) PROVE MediaRows'
  <2>1. /\ UNCHANGED <<bucket, issued>> /\ mediaTxn[r].key \in issued /\ mediaTxn[r].pc = "written"
        /\ mediaTxn[r].op \in {"logo", "add", "remove"}
    BY <1>8, MediaCommitted
  <2>2. /\ MediaValues(mediaTxn[r]) /\ mediaTxn[r].key \in Media!Keys /\ mediaTxn[r].key # None
    BY <1>1, <2>1, MediaGeneral DEF MediaLocal, MediaFits, MediaRows
  <2>3. CASE Media!CommitLogo(r)
    <3>1. logo' \in Media!Keys /\ logo'[1] = "logo"
      BY <1>1, <2>2, <2>3 DEF Media!CommitLogo, MediaRows, MediaValues
    <3>2. photos' = photos
      BY <2>3 DEF Media!CommitLogo
    <3>3. \A g \in Media!Galleries : OfKind(g)' /\ OncePerKey(g)'
      BY <1>1, <2>1, <3>2 DEF MediaRows, OfKind, OncePerKey
    <3>4. QED
      BY <1>1, <2>1, <3>1, <3>2, <3>3 DEF MediaRows
  <2>4. CASE Media!CommitAddition(r)
    <3> DEFINE h == mediaTxn[r].on
    <3> DEFINE p == [key |-> mediaTxn[r].key, position |-> mediaTxn[r].place]
    <3>1. /\ mediaTxn[r].op = "add" /\ logo' = logo
          /\ photos' = [photos EXCEPT ![h] = photos[h] \cup {p}]
      BY <2>4 DEF Media!CommitAddition
    <3>2. /\ h \in Media!Galleries /\ p \in Photos /\ p.key = mediaTxn[r].key
          /\ p.key[1] = Media!Kind(h) /\ p.key \in issued
      BY <2>1, <2>2, <3>1 DEF MediaValues, Photos
    <3>3. ~Media!Taken(p.key)
      BY <2>1, <3>1, <3>2 DEF MediaInv, MediaLocks
    <3> HIDE DEF p, h
    <3>4. /\ \A g \in Media!Galleries : photos'[g] = IF g = h THEN photos[g] \cup {p} ELSE photos[g]
          /\ photos' \in [Media!Galleries -> SUBSET Photos]
      BY <1>1, <3>1, <3>2 DEF MediaRows
    <3>5. \A g \in Media!Galleries : OfKind(g)'
      BY <1>1, <2>1, <3>2, <3>4 DEF MediaRows, OfKind
    <3>6. \A q \in photos[h] : q.key # p.key
      BY <3>2, <3>3 DEF Media!Taken, Media!KeysOf
    <3>7. \A g \in Media!Galleries : OncePerKey(g)'
      BY <1>1, <3>4, <3>6 DEF MediaRows, OncePerKey
    <3>8. \A g \in Media!Galleries : IsFiniteSet(photos[g] \cup {p}) /\ IsFiniteSet(photos[g])
      BY <1>1, FS_AddElement DEF MediaRows
    <3>9. \A g \in Media!Galleries : IsFiniteSet(photos'[g])
      BY <3>4, <3>8
    <3>10. QED
      BY <1>1, <2>1, <3>1, <3>4, <3>5, <3>7, <3>9 DEF MediaRows
  <2>5. CASE Media!CommitRemoval(r)
    <3> DEFINE h == mediaTxn[r].on
    <3>1. /\ logo' = logo
          /\ photos' = [photos EXCEPT ![h] = {p \in photos[h] : p.key # mediaTxn[r].key}]
      BY <2>5 DEF Media!CommitRemoval
    <3> HIDE DEF h
    <3>2. \A g \in Media!Galleries : photos'[g] \in SUBSET photos[g]
      BY <1>1, <3>1 DEF MediaRows
    <3>3. photos' \in [Media!Galleries -> SUBSET Photos]
      BY <1>1, <3>1, <3>2 DEF MediaRows
    <3>4. \A g \in Media!Galleries : OfKind(g)' /\ OncePerKey(g)'
      BY <1>1, <2>1, <3>2 DEF MediaRows, OfKind, OncePerKey
    <3>5. \A g \in Media!Galleries : IsFiniteSet(photos'[g])
      BY <1>1, <3>2, FS_Subset DEF MediaRows
    <3>6. QED
      BY <1>1, <2>1, <3>1, <3>3, <3>4, <3>5 DEF MediaRows
  <2>6. QED
    BY <1>8, <2>3, <2>4, <2>5 DEF Committing
<1>9. QED
  BY <1>3, <1>4, <1>5, <1>6, <1>7, <1>8, MediaCases

(* A key is inserted or deleted by one request at a time.                  *)
LEMMA MediaLocksStep ==
  ASSUME Media!MediaAssumption, MediaInv, [Media!Next]_Media!vars
  PROVE  MediaLocks'
<1>1. MediaLocks /\ MediaRows /\ MediaLocal
  BY DEF MediaInv
<1>2. ASSUME mediaTxn' = mediaTxn, photos' = photos PROVE MediaLocks'
  BY <1>1, <1>2 DEF MediaLocks, Media!Taken, Media!KeysOf, Media!Locks
<1>3. CASE UNCHANGED Media!vars
  BY <1>2, <1>3 DEF Media!vars
<1>4. CASE Issue
  BY <1>2, <1>4 DEF Issue, Media!IssueMediaUploadUrl, Media!rows
<1>5. ASSUME NEW k \in Media!Keys, Media!Upload(k) PROVE MediaLocks'
  BY <1>2, <1>5 DEF Media!Upload, Media!rows
<1>6. ASSUME NEW r \in Requests, QuietStep(r) PROVE MediaLocks'
  <2>1. Only(r) /\ Moved(r, mediaTxn[r], mediaTxn'[r]) /\ photos' = photos /\ MediaLocal'
    BY <1>6, MediaQuiet
  <2>2. \A q \in Requests : mediaTxn'[q].op = "add" /\ mediaTxn'[q].pc = "written" =>
          ~Media!Taken(mediaTxn'[q].key)
    BY <1>1, <2>1 DEF Only, Moved, MediaLocks
  <2>3. ASSUME NEW q \in Requests, q # r,
               mediaTxn'[q].pc \in {"clean", "written"}, mediaTxn'[q].op \in {"add", "remove"},
               mediaTxn'[r].pc \in {"clean", "written"}, mediaTxn'[r].op \in {"add", "remove"}
        PROVE  mediaTxn'[q].key # mediaTxn'[r].key
    <3>1. mediaTxn'[q] = mediaTxn[q] /\ Media!Contenders(r) = {}
      BY <2>1, <2>3 DEF Only, Moved
    <3>2. mediaTxn[r].op # "none"
      BY <2>1, <2>3 DEF Moved
    <3>3. mediaTxn'[r].key = mediaTxn[r].key
      BY <2>1, <3>2 DEF Moved
    <3>4. QED
      BY <2>3, <3>1, <3>3 DEF Media!Contenders, Media!Locks
  <2>4. ASSUME NEW p \in Requests, NEW q \in Requests, p # r, q # r,
               Media!Locks(p)', mediaTxn'[p].op \in {"add", "remove"},
               Media!Locks(q)', mediaTxn'[q].op \in {"add", "remove"},
                 mediaTxn'[p].key = mediaTxn'[q].key
        PROVE  p = q
    BY <1>1, <2>1, <2>4 DEF Only, MediaLocks, Media!Locks
  <2>5. QED
    BY <2>1, <2>2, <2>3, <2>4 DEF MediaLocks, Media!Locks, Media!Taken, Media!KeysOf
<1>7. ASSUME NEW r \in Requests, Media!Clean(r) PROVE MediaLocks'
  <2>1. /\ Only(r) /\ photos' = photos /\ mediaTxn[r].pc = "clean" /\ mediaTxn'[r].pc = "written"
        /\ mediaTxn[r].op \in {"logo", "remove"} /\ mediaTxn'[r].op = mediaTxn[r].op
        /\ mediaTxn'[r].key = mediaTxn[r].key
    BY <1>7, MediaCleaned
  <2>2. \A q \in Requests : /\ mediaTxn'[q].op = mediaTxn[q].op
                            /\ mediaTxn'[q].key = mediaTxn[q].key
                            /\ Media!Locks(q)' <=> Media!Locks(q)
                            /\ q # r => mediaTxn'[q] = mediaTxn[q]
    BY <2>1 DEF Only, Media!Locks
  <2>3. \A k : Media!Taken(k)' <=> Media!Taken(k)
    BY <2>1 DEF Media!Taken, Media!KeysOf
  <2>4. QED
    BY <1>1, <2>1, <2>2, <2>3 DEF MediaLocks
<1>8. ASSUME NEW r \in Requests, Committing(r) PROVE MediaLocks'
  <2>1. /\ Only(r) /\ mediaTxn'[r].pc = "done" /\ mediaTxn[r].pc = "written"
    BY <1>8, MediaCommitted
  <2>2. \A q \in Requests : Media!Locks(q)' => q # r /\ Media!Locks(q)
    BY <2>1 DEF Only, Media!Locks
  <2>3. ASSUME NEW q \in Requests, q # r, mediaTxn[q].op = "add", mediaTxn[q].pc = "written",
               Media!Taken(mediaTxn[q].key)'
        PROVE  FALSE
    <3>1. ~Media!Taken(mediaTxn[q].key) /\ mediaTxn'[q] = mediaTxn[q]
      BY <1>1, <2>1, <2>3 DEF MediaLocks, Only
    <3>2. PICK g \in Media!Galleries : mediaTxn[q].key \in Media!KeysOf(g)' \ Media!KeysOf(g)
      BY <2>3, <3>1 DEF Media!Taken
    <3>3. CASE Media!CommitLogo(r)
      BY <3>2, <3>3 DEF Media!CommitLogo, Media!KeysOf
    <3>4. CASE Media!CommitRemoval(r)
      BY <1>1, <3>2, <3>4 DEF Media!CommitRemoval, Media!KeysOf, MediaRows
    <3>5. CASE Media!CommitAddition(r)
      <4>1. /\ Media!KeysOf(g)' \subseteq Media!KeysOf(g) \cup {mediaTxn[r].key}
            /\ mediaTxn[r].op = "add"
        BY <1>1, <3>5 DEF Media!CommitAddition, Media!KeysOf, MediaRows
      <4>2. mediaTxn[q].key = mediaTxn[r].key
        BY <3>2, <4>1
      <4>3. QED
        BY <1>1, <2>1, <2>3, <4>1, <4>2 DEF MediaLocks, Media!Locks
    <3>6. QED
      BY <1>8, <3>3, <3>4, <3>5 DEF Committing
  <2>4. QED
    BY <1>1, <2>1, <2>2, <2>3 DEF MediaLocks, Only
<1>9. QED
  BY <1>3, <1>4, <1>5, <1>6, <1>7, <1>8, MediaCases

LEMMA MediaNext ==
  ASSUME Media!MediaAssumption, MediaInv, [Media!Next]_Media!vars
  PROVE  MediaInv'
BY MediaRowsStep, MediaLocksStep, MediaSteady DEF MediaInv

(* What is put stays put, what is let go stays let go, and an object that  *)
(* is attached once later was attached once before.                        *)
LEMMA MediaStable ==
  ASSUME Media!MediaAssumption, MediaInv, [Media!Next]_Media!vars
  PROVE  /\ \A k, op, g : Put(k, op, g) => \E r \in Requests :
                mediaTxn'[r].op = op /\ mediaTxn'[r].key = k /\ mediaTxn'[r].on = g
                  /\ mediaTxn'[r].answer = "ok"
         /\ \A k \in Media!Keys : InPlace(k) =>
                k \in bucket' \/ \E q \in Requests : mediaTxn'[q].gone = k
         /\ \A k \in Media!Keys, r \in Requests : r \in Media!Attachments(k) =>
                mediaTxn'[r].op = mediaTxn[r].op /\ mediaTxn'[r].key = k
<1>1. Emptied /\ \A q \in Requests : Steady(q)
  BY MediaSteady
<1>2. "ok" # None
  BY MediaGeneral
<1>3. \A k \in Media!Keys : k # None
  BY MediaGeneral
<1>4. ASSUME NEW k, NEW op, NEW g, Put(k, op, g)
      PROVE  \E r \in Requests :
               mediaTxn'[r].op = op /\ mediaTxn'[r].key = k /\ mediaTxn'[r].on = g
                 /\ mediaTxn'[r].answer = "ok"
  BY <1>1, <1>2, <1>4 DEF Put, Steady
<1>5. ASSUME NEW k \in Media!Keys, InPlace(k)
      PROVE  k \in bucket' \/ \E q \in Requests : mediaTxn'[q].gone = k
  BY <1>1, <1>3, <1>5 DEF InPlace, Gone, Emptied, Steady
<1>6. ASSUME NEW k \in Media!Keys, NEW r \in Media!Attachments(k)
      PROVE  mediaTxn'[r].op = mediaTxn[r].op /\ mediaTxn'[r].key = k
  BY <1>1, <1>6 DEF Media!Attachments, Steady
<1>7. QED
  BY <1>4, <1>5, <1>6 DEF Media!Attachments

(* A request that changes makes one of its own steps.                      *)
LEMMA MediaTurns ==
  ASSUME Media!MediaAssumption, MediaInv, [Media!Next]_Media!vars
  PROVE  \A q \in Requests : mediaTxn'[q] = mediaTxn[q] \/ QuietStep(q) \/ Media!Clean(q)
           \/ Committing(q)
<1>1. CASE mediaTxn' = mediaTxn
  BY <1>1
<1>2. CASE mediaTxn' # mediaTxn
  <2>1. PICK r \in Requests : QuietStep(r) \/ Media!Clean(r) \/ Committing(r)
    BY <1>2, MediaCases DEF Media!vars, Issue, Media!IssueMediaUploadUrl, Media!Upload
  <2>2. Only(r)
    BY <2>1, MediaQuiet, MediaCleaned, MediaCommitted
  <2>3. QED
    BY <2>1, <2>2 DEF Only
<1>3. QED
  BY <1>1, <1>2

(* How a step changes what is referred to, by program counter.             *)
LEMMA MediaReferred ==
  ASSUME Media!MediaAssumption, MediaInv, [Media!Next]_Media!vars
  PROVE  \/ logo' = logo /\ photos' = photos
         \/ \E r \in Requests :
              /\ Committing(r) /\ mediaTxn[r].op = "logo" /\ photos' = photos
              /\ logo' = IF mediaTxn[r].set THEN mediaTxn[r].key ELSE logo
         \/ \E r \in Requests :
              /\ Committing(r) /\ mediaTxn[r].op = "add" /\ logo' = logo
              /\ \A g \in Media!Galleries :
                   Media!KeysOf(g)' = IF g = mediaTxn[r].on
                     THEN Media!KeysOf(g) \cup {mediaTxn[r].key} ELSE Media!KeysOf(g)
         \/ \E r \in Requests :
              /\ Committing(r) /\ mediaTxn[r].op = "remove" /\ logo' = logo
              /\ \A g \in Media!Galleries :
                   Media!KeysOf(g)' = IF g = mediaTxn[r].on THEN Media!KeysOf(g) \ {mediaTxn[r].key}
                     ELSE Media!KeysOf(g)
<1>1. MediaRows
  BY DEF MediaInv
<1>2. CASE UNCHANGED Media!vars
  BY <1>2 DEF Media!vars
<1>3. CASE Issue
  BY <1>3 DEF Issue, Media!IssueMediaUploadUrl, Media!rows
<1>4. ASSUME NEW k \in Media!Keys, Media!Upload(k) PROVE logo' = logo /\ photos' = photos
  BY <1>4 DEF Media!Upload, Media!rows
<1>5. ASSUME NEW r \in Requests, QuietStep(r) PROVE logo' = logo /\ photos' = photos
  BY <1>5, MediaQuiet
<1>6. ASSUME NEW r \in Requests, Media!Clean(r) PROVE logo' = logo /\ photos' = photos
  BY <1>6, MediaCleaned
<1>7. ASSUME NEW r \in Requests, Media!CommitLogo(r)
      PROVE  /\ Committing(r) /\ mediaTxn[r].op = "logo" /\ photos' = photos
             /\ logo' = IF mediaTxn[r].set THEN mediaTxn[r].key ELSE logo
  BY <1>7 DEF Media!CommitLogo, Committing
<1>8. ASSUME NEW r \in Requests, Media!CommitAddition(r)
      PROVE  /\ Committing(r) /\ mediaTxn[r].op = "add" /\ logo' = logo
             /\ \A g \in Media!Galleries :
                  Media!KeysOf(g)' = IF g = mediaTxn[r].on
                    THEN Media!KeysOf(g) \cup {mediaTxn[r].key} ELSE Media!KeysOf(g)
  <2> DEFINE p == [key |-> mediaTxn[r].key, position |-> mediaTxn[r].place]
  <2>1. /\ photos' = [photos EXCEPT ![mediaTxn[r].on] = photos[mediaTxn[r].on] \cup {p}]
        /\ p.key = mediaTxn[r].key /\ mediaTxn[r].op = "add" /\ logo' = logo
    BY <1>8 DEF Media!CommitAddition
  <2> HIDE DEF p
  <2>2. ASSUME NEW g \in Media!Galleries
        PROVE  Media!KeysOf(g)' = IF g = mediaTxn[r].on THEN Media!KeysOf(g) \cup {mediaTxn[r].key}
                 ELSE Media!KeysOf(g)
    <3>1. photos'[g] = IF g = mediaTxn[r].on THEN photos[g] \cup {p} ELSE photos[g]
      BY <1>1, <2>1 DEF MediaRows
    <3>2. QED
      BY <2>1, <3>1 DEF Media!KeysOf
  <2>3. QED
    BY <1>8, <2>1, <2>2 DEF Committing
<1>9. ASSUME NEW r \in Requests, Media!CommitRemoval(r)
      PROVE  /\ Committing(r) /\ mediaTxn[r].op = "remove" /\ logo' = logo
             /\ \A g \in Media!Galleries :
                  Media!KeysOf(g)' = IF g = mediaTxn[r].on THEN Media!KeysOf(g) \ {mediaTxn[r].key}
                    ELSE Media!KeysOf(g)
  <2>1. /\ photos' = [photos EXCEPT ![mediaTxn[r].on] =
                        {p \in photos[mediaTxn[r].on] : p.key # mediaTxn[r].key}]
        /\ mediaTxn[r].op = "remove" /\ logo' = logo
    BY <1>9 DEF Media!CommitRemoval
  <2>2. ASSUME NEW g \in Media!Galleries
        PROVE  Media!KeysOf(g)' = IF g = mediaTxn[r].on THEN Media!KeysOf(g) \ {mediaTxn[r].key}
                 ELSE Media!KeysOf(g)
    <3>1. photos'[g] = IF g = mediaTxn[r].on THEN {p \in photos[g] : p.key # mediaTxn[r].key}
            ELSE photos[g]
      BY <1>1, <2>1 DEF MediaRows
    <3>2. QED
      BY <3>1 DEF Media!KeysOf
  <2>3. QED
    BY <1>9, <2>1, <2>2 DEF Committing
<1>10. QED
  BY <1>2, <1>3, <1>4, <1>5, <1>6, <1>7, <1>8, <1>9, MediaCases DEF Committing

LEMMA MediaPutStep ==
  ASSUME Media!MediaAssumption, MediaInv, MediaPut, [Media!Next]_Media!vars
  PROVE  MediaPut'
<1> DEFINE After(k, op, g) == \E r \in Requests : /\ mediaTxn'[r].op = op /\ mediaTxn'[r].key = k
                                                  /\ mediaTxn'[r].on = g
                                                  /\ mediaTxn'[r].answer = "ok"
<1> DEFINE LeftAfter(k) == k = Media!FirstLogo \/ After(k, "logo", "salon")
<1>1. \A k, op, g : Put(k, op, g) => After(k, op, g)
  BY MediaStable
<1>2. \A k : Left(k) => LeftAfter(k)
  BY <1>1 DEF Left
<1>3. \A q \in Requests : Steady(q)
  BY MediaSteady
<1>4. ASSUME NEW r \in Requests, Committing(r)
      PROVE  After(mediaTxn[r].key, mediaTxn[r].op, mediaTxn[r].on)
  BY <1>4, MediaCommitted
<1>5. \A q \in Requests : MediaFits(mediaTxn[q]) /\ (MediaFits(mediaTxn[q])')
  BY MediaSteady DEF MediaInv, MediaLocal
<1> HIDE DEF After
<1>6. LeftAfter(logo')
  <2>1. ASSUME NEW r \in Requests, mediaTxn[r].op = "logo", Committing(r)
        PROVE  mediaTxn[r].on = "salon"
    <3>1. mediaTxn[r].key \in issued
      BY <2>1, MediaCommitted
    <3>2. mediaTxn[r].key # None
      BY <3>1, MediaGeneral DEF MediaInv, MediaRows
    <3>3. QED
      BY <1>5, <2>1, <3>2 DEF MediaFits, MediaValues
  <2>2. Left(logo)
    BY DEF MediaPut
  <2>3. QED
    BY <1>2, <1>4, <2>1, <2>2, MediaReferred
<1>7. ASSUME NEW g \in Media!Galleries, NEW k \in Media!KeysOf(g)' PROVE After(k, "add", g)
  <2>1. CASE k \in Media!KeysOf(g)
    BY <1>1, <2>1 DEF MediaPut
  <2>2. CASE k \notin Media!KeysOf(g)
    <3>1. PICK r \in Requests : /\ Committing(r) /\ mediaTxn[r].op = "add" /\ g = mediaTxn[r].on
                                /\ k = mediaTxn[r].key
      BY <1>7, <2>2, MediaReferred DEF Media!KeysOf
    <3>2. QED
      BY <1>4, <3>1
  <2>3. QED
    BY <2>1, <2>2
<1>8. ASSUME NEW q \in Requests
      PROVE  /\ mediaTxn'[q].op = "remove" /\ mediaTxn'[q].key # None =>
                  After(mediaTxn'[q].key, "add", mediaTxn'[q].on)
             /\ mediaTxn'[q].op = "logo" /\ mediaTxn'[q].seen # None => LeftAfter(mediaTxn'[q].seen)
             /\ mediaTxn'[q].op = "logo" /\ mediaTxn'[q].gone # None => LeftAfter(mediaTxn'[q].gone)
  <2>1. CASE mediaTxn'[q] = mediaTxn[q]
    BY <1>1, <1>2, <2>1 DEF MediaPut
  <2>2. CASE QuietStep(q)
    <3>1. Moved(q, mediaTxn[q], mediaTxn'[q])
      BY <2>2, MediaQuiet
    <3>2. mediaTxn[q].op = "none" => mediaTxn[q].seen = None /\ mediaTxn[q].gone = None
      BY <1>5 DEF MediaFits, MediaCourse, Media!New
    <3>3. mediaTxn'[q].op = "remove" /\ mediaTxn'[q].key # None =>
            After(mediaTxn'[q].key, "add", mediaTxn'[q].on)
      BY <1>1, <3>1 DEF Moved, MediaPut
    <3>4. mediaTxn'[q].op = "logo" /\ mediaTxn'[q].seen # None => LeftAfter(mediaTxn'[q].seen)
      BY <1>2, <3>1, <3>2 DEF Moved, MediaPut
    <3>5. mediaTxn'[q].op = "logo" /\ mediaTxn'[q].gone # None => LeftAfter(mediaTxn'[q].gone)
      BY <1>2, <3>1, <3>2 DEF Moved, MediaPut
    <3>6. QED
      BY <3>3, <3>4, <3>5
  <2>3. CASE Media!Clean(q)
    <3>1. /\ mediaTxn'[q].op = mediaTxn[q].op /\ mediaTxn'[q].on = mediaTxn[q].on
          /\ mediaTxn'[q].key = mediaTxn[q].key
          /\ mediaTxn'[q].seen = mediaTxn[q].seen
          /\ mediaTxn'[q].gone = IF mediaTxn[q].op = "logo" THEN mediaTxn[q].seen
               ELSE mediaTxn[q].key
      BY <2>3, MediaCleaned
    <3>2. QED
      BY <1>1, <1>2, <3>1 DEF MediaPut
  <2>4. CASE Committing(q)
    <3>1. /\ mediaTxn'[q].op = mediaTxn[q].op /\ mediaTxn'[q].on = mediaTxn[q].on
          /\ mediaTxn'[q].key = mediaTxn[q].key
          /\ mediaTxn'[q].seen = None /\ mediaTxn'[q].gone = mediaTxn[q].gone
      BY <2>4, MediaCommitted
    <3>2. QED
      BY <1>1, <1>2, <3>1 DEF MediaPut
  <2>5. QED
    BY <2>1, <2>2, <2>3, <2>4, MediaTurns
<1>9. QED
  BY <1>6, <1>7, <1>8 DEF MediaPut, Put, Left, After

LEMMA MediaPlacedStep ==
  ASSUME Media!MediaAssumption, MediaInv, MediaPlaced, [Media!Next]_Media!vars
  PROVE  MediaPlaced'
<1> DEFINE After(k) == k \in bucket' \/ \E q \in Requests : mediaTxn'[q].gone = k
<1>1. \A k \in Media!Keys : InPlace(k) => After(k)
  BY MediaStable
<1>2. Emptied /\ \A q \in Requests : Steady(q)
  BY MediaSteady
<1>3. \A k \in bucket : After(k)
  BY <1>2 DEF Emptied
<1>4. \A q \in Requests : MediaFits(mediaTxn[q]) /\ (MediaFits(mediaTxn[q])')
  BY MediaSteady DEF MediaInv, MediaLocal
<1>5. Media!Referenced \subseteq Media!Keys /\ \A k \in Media!Referenced : After(k)
  <2>1. Media!Referenced \subseteq Media!Keys
    BY DEF MediaInv, MediaRows, Media!Referenced, Media!KeysOf, OfKind
  <2>2. QED
    BY <1>1, <2>1 DEF MediaPlaced
<1> HIDE DEF After
<1>6. ASSUME NEW r \in Requests, mediaTxn[r].op \in {"logo", "add"}, Committing(r)
      PROVE  After(mediaTxn[r].key)
  <2>1. mediaTxn[r].key \in Media!Keys /\ mediaTxn[r].key # None
    BY <1>6, MediaCommitted, MediaGeneral DEF MediaInv, MediaRows
  <2>2. QED
    BY <1>1, <1>6, <2>1 DEF MediaPlaced
<1>7. ASSUME NEW k \in Media!Referenced' PROVE After(k)
  <2>1. CASE k \in Media!Referenced
    BY <1>5, <2>1
  <2>2. CASE k \notin Media!Referenced
    <3>1. \/ k = logo' /\ k # logo
          \/ \E g \in Media!Galleries : k \in Media!KeysOf(g)' \ Media!KeysOf(g)
      BY <1>7, <2>2 DEF Media!Referenced
    <3>2. PICK r \in Requests : Committing(r) /\ mediaTxn[r].op \in {"logo", "add"}
                 /\ k = mediaTxn[r].key
      BY <3>1, MediaReferred DEF Media!KeysOf
    <3>3. QED
      BY <1>6, <3>2
  <2>3. QED
    BY <2>1, <2>2
<1>8. ASSUME NEW q \in Requests
      PROVE  /\ \A k \in mediaTxn'[q].shown : After(k)
             /\ mediaTxn'[q].op \in {"logo", "add"} /\ mediaTxn'[q].key # None =>
                  After(mediaTxn'[q].key)
  <2>1. mediaTxn'[q].shown \subseteq mediaTxn[q].shown \cup Media!Referenced
    BY MediaTurns, MediaQuiet, MediaCleaned, MediaCommitted DEF Moved
  <2>2. \A k \in mediaTxn'[q].shown : After(k)
    <3>1. mediaTxn[q].shown \subseteq Media!Keys
      BY <1>4 DEF MediaFits, MediaTxns
    <3>2. QED
      BY <1>1, <1>5, <2>1, <3>1 DEF MediaPlaced
  <2>3. ASSUME mediaTxn'[q].op \in {"logo", "add"}, mediaTxn'[q].key # None
        PROVE  After(mediaTxn'[q].key)
    <3>1. mediaTxn'[q].key \in Media!Keys
      BY <1>4, <2>3 DEF MediaFits, MediaTxns
    <3>2. CASE mediaTxn[q].op = "none"
      BY <1>2, <1>3, <2>3, <3>2 DEF Steady
    <3>3. CASE mediaTxn[q].op # "none"
      BY <1>1, <1>2, <2>3, <3>1, <3>3 DEF Steady, MediaPlaced
    <3>4. QED
      BY <3>2, <3>3
  <2>4. QED
    BY <2>2, <2>3
<1>9. QED
  BY <1>7, <1>8 DEF MediaPlaced, InPlace, Gone, After

(* An object that is attached once is not attached again by a request that *)
(* commits after it was there.                                             *)
LEMMA MediaNotBack ==
  ASSUME Media!MediaAssumption, MediaInv, NEW r \in Requests, Committing(r),
         mediaTxn[r].op \in {"logo", "add"}, NEW k, k = mediaTxn[r].key, Sole(k)
  PROVE  ~Left(k) /\ \A g : ~Put(k, "add", g)
<1>1. mediaTxn[r].answer = None /\ None # "ok"
  BY MediaCommitted, MediaGeneral
<1>2. r \in Media!Attachments(k)
  BY DEF Media!Attachments
<1>3. \A op \in {"logo", "add"} : \A g : ~Put(k, op, g)
  BY <1>1, <1>2 DEF Put, Sole, Media!Attachments
<1>4. QED
  BY <1>2, <1>3 DEF Left, Sole

LEMMA MediaLetGoStep ==
  ASSUME Media!MediaAssumption, MediaSafe, [Media!Next]_Media!vars
  PROVE  MediaLetGo'
<1>1. MediaInv /\ MediaPut /\ MediaLetGo
  BY DEF MediaSafe
<1>2. \A q \in Requests : MediaFits(mediaTxn[q]) /\ (MediaFits(mediaTxn[q])') /\ Steady(q)
  BY <1>1, MediaSteady DEF MediaInv, MediaLocal
<1>3. MediaRows'
  BY <1>1, MediaRowsStep
<1>4. ASSUME NEW k \in Media!Keys, Sole(k)' PROVE Sole(k)
  <2>1. \A a, b \in Media!Attachments(k)' : a = b /\ k # Media!FirstLogo
    BY <1>4 DEF Sole
  <2>2. Media!Attachments(k) \subseteq Media!Attachments(k)'
    BY <1>1, MediaStable DEF Media!Attachments
  <2>3. QED
    BY <2>1, <2>2 DEF Sole
<1>5. ASSUME NEW k \in Media!Keys, Sole(k), Left(k) \/ \E g : Put(k, "add", g),
             k \notin Media!Referenced
      PROVE  k \notin Media!Referenced'
  <2>1. SUFFICES ASSUME k \in Media!Referenced' PROVE FALSE
    OBVIOUS
  <2>2. \/ k = logo' /\ k # logo
        \/ \E g \in Media!Galleries : k \in Media!KeysOf(g)' \ Media!KeysOf(g)
    BY <1>5, <2>1 DEF Media!Referenced
  <2>3. PICK r \in Requests : Committing(r) /\ mediaTxn[r].op \in {"logo", "add"}
               /\ k = mediaTxn[r].key
    BY <1>1, <2>2, MediaReferred DEF Media!KeysOf
  <2>4. QED
    BY <1>1, <1>5, <2>3, MediaNotBack
<1>6. ASSUME NEW k \in Media!Keys, Sole(k), Left(k), logo # k
      PROVE  logo' # k
  <2>1. SUFFICES ASSUME logo' = k PROVE FALSE
    OBVIOUS
  <2>2. PICK r \in Requests : Committing(r) /\ mediaTxn[r].op = "logo" /\ k = mediaTxn[r].key
    BY <1>1, <1>6, <2>1, MediaReferred
  <2>3. QED
    BY <1>1, <1>6, <2>2, MediaNotBack
<1>7. ASSUME NEW q \in Requests, mediaTxn'[q].op = "logo",
             mediaTxn'[q].pc \in {"flush", "clean", "written"},
             ~mediaTxn'[q].set, mediaTxn'[q].seen # mediaTxn'[q].key, Sole(mediaTxn[q].seen)'
      PROVE  logo' # mediaTxn'[q].seen
  <2> DEFINE k == mediaTxn'[q].seen
  <2>1. /\ mediaTxn[q].op = "logo" /\ mediaTxn'[q].seen = mediaTxn[q].seen
        /\ mediaTxn'[q].key = mediaTxn[q].key
        /\ \/ mediaTxn[q].pc \in {"flush", "clean", "written"} /\ mediaTxn'[q].set = mediaTxn[q].set
           \/ logo' = logo /\ mediaTxn'[q].set = (logo # mediaTxn[q].key)
    <3>1. CASE mediaTxn'[q] = mediaTxn[q]
      BY <1>7, <3>1
    <3>2. CASE QuietStep(q)
      <4>1. Moved(q, mediaTxn[q], mediaTxn'[q]) /\ logo' = logo
        BY <1>1, <3>2, MediaQuiet
      <4>2. QED
        BY <1>7, <4>1 DEF Moved
    <3>3. CASE Media!Clean(q)
      BY <1>1, <1>7, <3>3, MediaCleaned
    <3>4. CASE Committing(q)
      BY <1>1, <1>7, <3>4, MediaCommitted
    <3>5. QED
      BY <1>1, <3>1, <3>2, <3>3, <3>4, MediaTurns
  <2>2. k \in Media!Keys /\ k # None
    BY <1>2, <1>7, <2>1, MediaGeneral DEF MediaFits, MediaValues, MediaTxns, MediaCourse
  <2>3. Sole(k) /\ Left(k)
    <3>1. Sole(mediaTxn'[q].seen)
      <4>1. \A a, b \in Media!Attachments(mediaTxn[q].seen)' : a = b
              /\ mediaTxn'[q].seen # Media!FirstLogo
        BY <1>7 DEF Sole
      <4>2. Media!Attachments(mediaTxn[q].seen) \subseteq Media!Attachments(mediaTxn[q].seen)'
        BY <1>1, <2>1, <2>2, MediaStable DEF Media!Attachments
      <4>3. QED
        BY <2>1, <4>1, <4>2 DEF Sole
    <3>2. QED
      BY <1>1, <2>1, <2>2, <3>1 DEF MediaPut
  <2>4. logo # k \/ (logo' = logo /\ logo # k)
    BY <1>1, <1>7, <2>1, <2>3 DEF MediaLetGo
  <2>5. QED
    BY <1>6, <2>2, <2>3, <2>4
<1>8. ASSUME NEW q \in Requests, mediaTxn'[q].answer = "ok", mediaTxn'[q].gone # None,
             Sole(mediaTxn[q].gone)'
      PROVE  mediaTxn'[q].gone \notin Media!Referenced'
  <2> DEFINE k == mediaTxn'[q].gone
  <2>1. k \in Media!Keys
    BY <1>2, <1>8 DEF MediaFits, MediaTxns
  <2>2. Sole(k)
    <3>1. \A a, b \in Media!Attachments(mediaTxn[q].gone)' : a = b /\ k # Media!FirstLogo
      BY <1>8 DEF Sole
    <3>2. Media!Attachments(k) \subseteq Media!Attachments(mediaTxn[q].gone)'
      BY <1>1, <2>1, MediaStable DEF Media!Attachments
    <3>3. QED
      BY <3>1, <3>2 DEF Sole
  <2> HIDE DEF k
  <2>3. mediaTxn'[q].op \in {"logo", "remove"}
    BY <1>2, <1>8 DEF MediaFits, MediaValues
  <2>4. CASE mediaTxn'[q] = mediaTxn[q]
    <3>1. k = mediaTxn[q].gone /\ k \notin Media!Referenced
      BY <1>1, <1>8, <2>2, <2>4 DEF MediaLetGo, k
    <3>2. Left(k) \/ \E g : Put(k, "add", g)
      BY <1>1, <1>2, <1>8, <2>3, <2>4, <3>1 DEF MediaPut, MediaFits, MediaValues
    <3>3. QED
      BY <1>5, <2>1, <2>2, <3>1, <3>2 DEF k
  <2>5. CASE QuietStep(q)
    BY <1>1, <1>8, <2>3, <2>5, MediaQuiet DEF Moved
  <2>6. CASE Media!Clean(q)
    BY <1>1, <1>8, <2>6, MediaCleaned, MediaGeneral
  <2>7. CASE Committing(q)
    <3>1. /\ mediaTxn[q].pc = "written" /\ mediaTxn'[q].gone = mediaTxn[q].gone
          /\ mediaTxn'[q].op = mediaTxn[q].op
          /\ mediaTxn[q].key \in Media!Keys /\ mediaTxn[q].key # None
      BY <1>1, <2>7, MediaCommitted, MediaGeneral DEF MediaInv, MediaRows
    <3>2. k = mediaTxn[q].gone /\ MediaValues(mediaTxn[q])
      BY <1>2, <3>1 DEF MediaFits, k
    <3>3. \A g \in Media!Galleries : \A j \in Media!KeysOf(g) : j[1] = Media!Kind(g)
      BY <1>1 DEF MediaInv, MediaRows, Media!KeysOf, OfKind
    <3>4. \A g \in Media!Galleries : \A j \in Media!KeysOf(g)' : j[1] = Media!Kind(g)
      BY <1>3 DEF MediaRows, Media!KeysOf, OfKind
    <3>5. CASE mediaTxn[q].op = "logo"
      <4>1. Media!CommitLogo(q)
        BY <2>7, <3>5 DEF Committing, Media!CommitAddition, Media!CommitRemoval
      <4>2. k = mediaTxn[q].seen /\ mediaTxn[q].seen # mediaTxn[q].key
        BY <1>8, <3>1, <3>2, <3>5 DEF MediaValues
      <4>3. logo' # k
        BY <1>1, <2>2, <3>1, <3>5, <4>1, <4>2 DEF Media!CommitLogo, MediaLetGo
      <4>4. k[1] = "logo"
        <5>1. Left(k)
          BY <1>1, <1>8, <3>1, <3>2, <3>5 DEF MediaPut
        <5>2. CASE k = Media!FirstLogo
          BY <5>2, MediaGeneral
        <5>3. CASE Put(k, "logo", "salon")
          <6>1. PICK r \in Requests : mediaTxn[r].op = "logo" /\ mediaTxn[r].key = k
            BY <5>3 DEF Put
          <6>2. QED
            BY <1>2, <2>1, <6>1, MediaGeneral DEF MediaFits, MediaValues
        <5>4. QED
          BY <5>1, <5>2, <5>3 DEF Left
      <4>5. \A g \in Media!Galleries : k \notin Media!KeysOf(g)'
        BY <3>4, <4>4, MediaGeneral
      <4>6. QED
        BY <4>3, <4>5 DEF Media!Referenced, k
    <3>6. CASE mediaTxn[q].op = "remove"
      <4>1. Media!CommitRemoval(q)
        BY <2>7, <3>6 DEF Committing, Media!CommitAddition, Media!CommitLogo
      <4>2. /\ k = mediaTxn[q].key /\ mediaTxn[q].on \in Media!Galleries
            /\ k[1] = Media!Kind(mediaTxn[q].on)
        BY <3>1, <3>2, <3>6 DEF MediaValues
      <4>3. logo' # k
        <5>1. logo' = logo /\ logo[1] = "logo"
          BY <1>1, <4>1 DEF Media!CommitRemoval, MediaInv, MediaRows
        <5>2. QED
          BY <4>2, <5>1, MediaGeneral
      <4>4. Put(k, "add", mediaTxn[q].on)
        BY <1>1, <3>1, <3>6, <4>2 DEF MediaPut
      <4>5. \A g \in Media!Galleries : k \in Media!KeysOf(g) => g = mediaTxn[q].on
        <5>1. ASSUME NEW g \in Media!Galleries, k \in Media!KeysOf(g) PROVE Put(k, "add", g)
          BY <1>1, <5>1 DEF MediaPut
        <5>2. QED
          BY <2>2, <4>4, <5>1 DEF Put, Sole, Media!Attachments
      <4>6. \A g \in Media!Galleries : photos'[g] = IF g = mediaTxn[q].on
                                             THEN {p \in photos[g] : p.key # mediaTxn[q].key}
                                             ELSE photos[g]
        BY <1>1, <4>1 DEF Media!CommitRemoval, MediaInv, MediaRows
      <4>7. \A g \in Media!Galleries : k \notin Media!KeysOf(g)'
        BY <4>2, <4>5, <4>6 DEF Media!KeysOf
      <4>8. QED
        BY <4>3, <4>7 DEF Media!Referenced, k
    <3>7. QED
      BY <2>3, <3>1, <3>5, <3>6
  <2>8. QED
    BY <1>1, <2>4, <2>5, <2>6, <2>7, MediaTurns
<1>9. QED
  BY <1>7, <1>8 DEF MediaLetGo

LEMMA MediaStart ==
  ASSUME Media!MediaAssumption, Media!Init
  PROVE  MediaSafe
<1>1. /\ logo = Media!FirstLogo /\ bucket = {Media!FirstLogo} /\ issued = {Media!FirstLogo}
      /\ photos = [g \in Media!Galleries |-> {}] /\ mediaTxn = [r \in Requests |-> Media!New]
      /\ Media!FirstLogo \in Media!Keys /\ Media!FirstLogo[1] = "logo"
  BY MediaGeneral DEF Media!Init
<1>2. IsFiniteSet(issued) /\ Cardinality(issued) <= MaxUploads + 1
  <2>1. IsFiniteSet(issued) /\ Cardinality(issued) = 1
    BY <1>1, FS_Singleton
  <2>2. QED
    BY <2>1 DEF Media!MediaAssumption
<1>3. \A g \in Media!Galleries : photos[g] = {} /\ IsFiniteSet(photos[g]) /\ Media!KeysOf(g) = {}
  BY <1>1, FS_EmptySet DEF Media!KeysOf
<1>4. MediaRows
  BY <1>1, <1>2, <1>3 DEF MediaRows, OfKind, OncePerKey
<1>5. \A r \in Requests : mediaTxn[r] = Media!New
  BY <1>1
<1>6. /\ Media!New.pc = "new" /\ Media!New.op = "none" /\ Media!New.key = None
      /\ Media!New.gone = None /\ Media!New.seen = None
      /\ Media!New.answer = None /\ Media!New.shown = {}
  BY DEF Media!New
<1>7. MediaFits(Media!New)
  BY <1>6, MediaNew DEF MediaFits, MediaCourse, MediaValues
<1>8. MediaLocal
  BY <1>1, <1>5, <1>7, MediaNew DEF MediaLocal
<1>9. MediaLocks
  BY <1>5, <1>6 DEF MediaLocks
<1>10. Media!Referenced = {Media!FirstLogo}
  BY <1>1, <1>3 DEF Media!Referenced
<1>11. MediaPut
  BY <1>1, <1>3, <1>5, <1>6 DEF MediaPut, Left
<1>12. MediaPlaced
  BY <1>1, <1>5, <1>6, <1>10 DEF MediaPlaced, InPlace
<1>13. MediaLetGo
  BY <1>5, <1>6 DEF MediaLetGo
<1>14. QED
  BY <1>4, <1>8, <1>9, <1>11, <1>12, <1>13 DEF MediaSafe, MediaInv

LEMMA MediaSafeStep ==
  ASSUME Media!MediaAssumption, MediaSafe, [Media!Next]_Media!vars
  PROVE  MediaSafe'
BY MediaNext, MediaPutStep, MediaPlacedStep, MediaLetGoStep DEF MediaSafe

LEMMA MediaAlways ==
  ASSUME Media!MediaAssumption
  PROVE  Media!Spec => []MediaSafe
<1>1. Media!Init => MediaSafe
  BY MediaStart
<1>2. MediaSafe /\ [Media!Next]_Media!vars => MediaSafe'
  BY MediaSafeStep
<1>3. QED
  BY <1>1, <1>2, PTL DEF Media!Spec

(* Once bounds the attachments of a key by one, of the first logo by none. *)
LEMMA OnceIsSole ==
  ASSUME Media!MediaAssumption, NEW k \in Media!Keys, Media!Once(k)
  PROVE  Sole(k)
<1> DEFINE A == Media!Attachments(k)
<1>1. IsFiniteSet(A) /\ Cardinality(A) \in Nat
  <2>1. A \in SUBSET Requests /\ IsFiniteSet(Requests)
    BY MediaSizes DEF Media!Attachments, Media!MediaAssumption
  <2> HIDE DEF A
  <2>2. IsFiniteSet(A)
    BY <2>1, FS_Subset
  <2>3. QED
    BY <2>2, FS_CardinalityType
<1>2. Cardinality(A) <= 1 /\ (k = Media!FirstLogo => Cardinality(A) <= 0)
  <2>1. Cardinality(A) <= IF k = Media!FirstLogo THEN 0 ELSE 1
    BY MediaSizes DEF Media!Once
  <2> HIDE DEF A
  <2>2. QED
    BY <1>1, <2>1
<1> HIDE DEF A
<1>3. CASE Cardinality(A) = 0
  <2>1. A = {}
    BY <1>1, <1>3, FS_EmptySet
  <2>2. QED
    BY <2>1 DEF Sole, A
<1>4. CASE Cardinality(A) = 1
  <2>1. PICK a : A = {a}
    BY <1>1, <1>4, FS_Singleton
  <2>2. k # Media!FirstLogo
    BY <1>2, <1>4
  <2>3. QED
    BY <2>1, <2>2 DEF Sole, A
<1>5. QED
  BY <1>1, <1>2, <1>3, <1>4

LEMMA MediaTyped ==
  ASSUME Media!MediaAssumption, MediaSafe
  PROVE  Media!TypeOK
<1>1. MediaRows /\ \A r \in Requests : mediaTxn[r] \in MediaTxns
  BY DEF MediaSafe, MediaInv, MediaLocal
<1>2. QED
  BY <1>1 DEF Media!TypeOK, MediaRows, OfKind, Photos, MediaTxns, MediaAnswers

LEMMA MediaExists ==
  ASSUME Media!MediaAssumption, MediaSafe
  PROVE  Media!ReferencedObjectsExist
<1>1. MediaInv /\ MediaPlaced /\ MediaLetGo
  BY DEF MediaSafe
<1>2. ASSUME NEW k \in Media!Referenced \ bucket, Media!Once(k)
      PROVE  \E r \in Requests : mediaTxn[r].gone = k /\ mediaTxn[r].answer # "ok"
  <2>1. k \in Media!Keys /\ k # None
    BY <1>1, MediaGeneral DEF MediaInv, MediaRows, Media!Referenced, Media!KeysOf, OfKind
  <2>2. Sole(k)
    BY <1>2, <2>1, OnceIsSole
  <2>3. PICK r \in Requests : mediaTxn[r].gone = k
    BY <1>1, <1>2 DEF MediaPlaced, InPlace, Gone
  <2>4. mediaTxn[r].answer # "ok"
    BY <1>1, <1>2, <2>1, <2>2, <2>3 DEF MediaLetGo
  <2>5. QED
    BY <2>3, <2>4
<1>3. \A r \in Requests : \A k \in mediaTxn[r].shown \ bucket : \E q \in Requests :
        mediaTxn[q].gone = k
  BY <1>1 DEF MediaPlaced, InPlace, Gone
<1>4. QED
  BY <1>2, <1>3 DEF Media!ReferencedObjectsExist

LEMMA MediaWithin ==
  ASSUME Media!MediaAssumption, MediaInv, [Media!Next]_Media!vars, NEW g \in Media!Galleries,
         Cardinality(photos'[g]) > Cardinality(photos[g]), Cardinality(photos'[g]) > MaxPhotos
  PROVE  \E r \in Requests : /\ mediaTxn[r].op = "add" /\ mediaTxn[r].on = g
                             /\ mediaTxn[r].pc = "written" /\ mediaTxn'[r].pc = "done"
                             /\ mediaTxn[r].count < Cardinality(photos[g])
<1>1. MediaRows /\ \A r \in Requests : MediaFits(mediaTxn[r])
  BY DEF MediaInv, MediaLocal
<1>2. IsFiniteSet(photos[g]) /\ Cardinality(photos[g]) \in Nat
  BY <1>1, FS_CardinalityType DEF MediaRows
<1>3. CASE photos'[g] = photos[g]
  BY <1>2, <1>3
<1>4. CASE photos'[g] # photos[g]
  <2>1. PICK r \in Requests : Media!CommitLogo(r) \/ Media!CommitAddition(r)
               \/ Media!CommitRemoval(r)
    <3>1. ~UNCHANGED photos
      BY <1>4
    <3>2. QED
      BY <3>1, MediaCases, MediaQuiet, MediaCleaned
      DEF Media!vars, Media!rows, Issue, Media!IssueMediaUploadUrl, Media!Upload, Committing
  <2>2. CASE Media!CommitLogo(r)
    BY <1>4, <2>2 DEF Media!CommitLogo
  <2>3. CASE Media!CommitRemoval(r)
    <3>1. photos'[g] \in SUBSET photos[g]
      BY <1>1, <2>3 DEF Media!CommitRemoval, MediaRows
    <3>2. Cardinality(photos'[g]) <= Cardinality(photos[g]) /\ IsFiniteSet(photos'[g])
      BY <1>2, <3>1, FS_Subset
    <3>3. Cardinality(photos'[g]) \in Nat
      BY <3>2, FS_CardinalityType
    <3>4. QED
      BY <1>2, <3>2, <3>3
  <2>4. CASE Media!CommitAddition(r)
    <3> DEFINE p == [key |-> mediaTxn[r].key, position |-> mediaTxn[r].place]
    <3>1. /\ photos' = [photos EXCEPT ![mediaTxn[r].on] = photos[mediaTxn[r].on] \cup {p}]
          /\ mediaTxn[r].op = "add" /\ mediaTxn[r].pc = "written"
      BY <2>4 DEF Media!CommitAddition
    <3>2. mediaTxn'[r].pc = "done"
      BY <2>4, MediaCommitted DEF Committing
    <3> HIDE DEF p
    <3>3. mediaTxn[r].on = g /\ photos'[g] = photos[g] \cup {p}
      BY <1>1, <1>4, <3>1 DEF MediaRows
    <3>4. Cardinality(photos'[g]) = Cardinality(photos[g])
            \/ Cardinality(photos'[g]) = Cardinality(photos[g]) + 1
      BY ZenonT(40), <1>2, <3>3, FS_AddElement
    <3>5. mediaTxn[r].count < MaxPhotos /\ mediaTxn[r].count \in Nat
      BY <1>1, <3>1 DEF MediaFits, MediaValues, MediaTxns
    <3>6. mediaTxn[r].count < Cardinality(photos[g])
      BY <1>2, <3>4, <3>5 DEF Media!MediaAssumption
    <3>7. QED
      BY <3>1, <3>2, <3>3, <3>6
  <2>5. QED
    BY <2>1, <2>2, <2>3, <2>4
<1>5. QED
  BY <1>3, <1>4

LEMMA MediaLimited ==
  ASSUME Media!MediaAssumption
  PROVE  Media!Spec => Media!PhotosWithinLimit
<1>1. MediaSafe /\ [Media!Next]_Media!vars =>
        [\A g \in Media!Galleries :
           Media!Cardinality(photos'[g]) > Media!Cardinality(photos[g])
           /\ Media!Cardinality(photos'[g]) > MaxPhotos =>
             \E r \in Requests :
               /\ mediaTxn[r].op = "add" /\ mediaTxn[r].on = g
               /\ mediaTxn[r].pc = "written" /\ mediaTxn'[r].pc = "done"
               /\ mediaTxn[r].count < Media!Cardinality(photos[g])]_Media!vars
  BY MediaWithin, MediaSizes DEF MediaSafe
<1>2. QED
  BY <1>1, MediaAlways, PTL DEF Media!Spec, Media!PhotosWithinLimit

-----------------------------------------------------------------------------
(* The catalogue (SalonCatalogue).                                         *)

Edits == {"update", "hours", "deactivate", "reactivate"}
Columns == DOMAIN Catalogue!NoSalon \cup DOMAIN Catalogue!NoService
TrailLines == [action : Edits \cup {"create"}, id : Listed \cup Services, changed : SUBSET Columns]

(* What an edit, or a creation, was asked for.                             *)
EditAsked(x) ==
  /\ x.op \in Edits
  /\ \/ /\ x.kind = "salon" /\ x.id \in DOMAIN Salon0
        /\ x.form \subseteq DOMAIN Catalogue!NoSalon \ {"status"}
        /\ "name" \in x.form => x.want.name \in Names
        /\ "city" \in x.form => x.want.city \in Cities
     \/ /\ x.kind = "service" /\ x.id \in DOMAIN Service0 /\ x.salon \in DOMAIN Salon0
        /\ x.form \subseteq DOMAIN Catalogue!NoService \ {"salon"}
        /\ "price" \in x.form => Catalogue!ValidPrice(x.want.price)
        /\ "duration" \in x.form => Catalogue!ValidDuration(x.want.duration)

CreationAsked(x) ==
  /\ x.op = "create"
  /\ \/ x.kind = "salon" /\ Catalogue!SalonFits(x.want)
     \/ x.kind = "service" /\ Catalogue!ServiceFits(x.want)

Present(x) == IF x.kind = "salon" THEN Catalogue!SalonFits(salons[x.id])
  ELSE Catalogue!ServiceFits(services[x.id])

(* The columns of the form in which a row differs.                         *)
Apart(x, row) == {k \in x.form : row[k] # x.want[k]}

RequestFits(x) ==
  /\ DOMAIN x = DOMAIN Catalogue!New
  /\ x.answer \in Catalogue!Refusals \cup {None, "ok", "error"}
  /\ x.pc # "done" => x.answer = None
  /\ x.changed \subseteq Columns
  /\ x.pc \in {"find", "load", "flush"} => EditAsked(x)
  /\ x.pc = "insert" => CreationAsked(x)
  /\ x.pc = "flushed" => \/ EditAsked(x)
                         \/ CreationAsked(x) /\ x.id \in IF x.kind = "salon" THEN Listed
                              ELSE Services
  /\ x.pc \in {"load", "flush", "flushed"} /\ x.op # "create" => Present(x)
  /\ x.pc \in {"load", "flush", "flushed"} /\ x.op = "update" => x.changed = Apart(x, x.seen)
  /\ x.pc \in {"flush", "flushed"} /\ x.op # "create" => x.set = Apart(x, x.loaded)

RowsFit ==
  /\ DOMAIN salons = Listed /\ DOMAIN services = Services
  /\ \A s \in Listed : salons[s] = Catalogue!NoSalon \/ Catalogue!SalonFits(salons[s])
  /\ \A id \in Services : services[id] = Catalogue!NoService \/ Catalogue!ServiceFits(services[id])

CatalogueInv ==
  /\ RowsFit
  /\ DOMAIN catalogueTxn = Requests /\ \A r \in Requests : RequestFits(catalogueTxn[r])
  /\ catalogueTrail \in Seq(TrailLines)

(* A request goes on as x while no row changes.                            *)
LEMMA CatalogueMove ==
  ASSUME CatalogueInv, NEW r \in Requests, NEW x, RequestFits(x),
         catalogueTxn' = [catalogueTxn EXCEPT ![r] = x],
         UNCHANGED <<salons, services, catalogueTrail>>
  PROVE  CatalogueInv'
<1>1. RowsFit'
  BY DEF CatalogueInv, RowsFit
<1>2. \A q \in Requests : catalogueTxn'[q] = IF q = r THEN x ELSE catalogueTxn[q]
  BY DEF CatalogueInv
<1>3. DOMAIN catalogueTxn' = Requests
  BY DEF CatalogueInv
<1>4. ASSUME NEW q \in Requests PROVE RequestFits(catalogueTxn[q])'
  <2>1. RequestFits(catalogueTxn'[q])
    BY <1>2 DEF CatalogueInv
  <2>2. QED
    BY <2>1 DEF RequestFits, Present
<1>5. QED
  BY <1>1, <1>3, <1>4 DEF CatalogueInv

LEMMA CatalogueAnswer ==
  ASSUME CatalogueInv, NEW r \in Requests, NEW a \in Catalogue!Refusals \cup {"ok", "error"},
         Catalogue!Answer(r, a), UNCHANGED <<salons, services, catalogueTrail>>
  PROVE  CatalogueInv'
<1> DEFINE x == [Catalogue!New EXCEPT !.pc = "done", !.answer = a]
<1>1. RequestFits(x)
  BY DEF RequestFits, Catalogue!New
<1>2. catalogueTxn' = [catalogueTxn EXCEPT ![r] = x]
  BY DEF Catalogue!Answer
<1> HIDE DEF x
<1>3. QED
  BY <1>1, <1>2, CatalogueMove

LEMMA CatalogueBegin ==
  ASSUME CatalogueInv, NEW r \in Requests, NEW x, Catalogue!Begin(r, x),
         DOMAIN x = DOMAIN Catalogue!New,
         x.answer \in {None, "ok", "ServiceNotFound"}, x.changed = {},
         \/ x.pc = "done"
         \/ x.pc = "count" /\ x.answer = None
         \/ x.pc = "find" /\ x.answer = None /\ EditAsked(x)
         \/ x.pc = "insert" /\ x.answer = None /\ CreationAsked(x)
  PROVE  CatalogueInv'
<1>1. RequestFits(x)
  BY DEF RequestFits, Catalogue!Refusals
<1>2. QED
  BY <1>1, CatalogueMove DEF Catalogue!Begin, Catalogue!rows

LEMMA CatalogueFaults ==
  ASSUME Catalogue!CatalogueAssumption, NEW n, NEW p, NEW d, Catalogue!Fault(n, p, d) = None
  PROVE  Catalogue!ValidName(n) /\ Catalogue!ValidPrice(p) /\ Catalogue!ValidDuration(d)
BY DEF Catalogue!Fault, Catalogue!CatalogueAssumption, Catalogue!Refusals

LEMMA CatalogueForms ==
  ASSUME Catalogue!CatalogueAssumption, CatalogueInv, NEW r \in Requests, Catalogue!OnSalon(r)
  PROVE  CatalogueInv'
<1>1. ASSUME NEW n \in Names \cup {Blank}, NEW c \in Cities, Catalogue!CreateSalon(r, n, c)
      PROVE  CatalogueInv'
  <2> DEFINE want == [name |-> n, city |-> c, status |-> "ACTIVE", opening_hours |-> None]
             x == [Catalogue!New EXCEPT !.pc = "insert", !.op = "create", !.kind = "salon",
                   !.want = want]
  <2>1. CASE ~Catalogue!ValidName(n)
    BY <1>1, <2>1, CatalogueAnswer DEF Catalogue!CreateSalon, Catalogue!Refuse, Catalogue!rows,
       Catalogue!Refusals
  <2>2. CASE Catalogue!ValidName(n)
    <3>1. Catalogue!Begin(r, x)
      BY <1>1, <2>2 DEF Catalogue!CreateSalon
    <3>2. Catalogue!SalonFits(want)
      BY <2>2 DEF Catalogue!SalonFits, Catalogue!NoSalon, Catalogue!ValidName,
         Catalogue!CatalogueAssumption
    <3>3. /\ DOMAIN x = DOMAIN Catalogue!New /\ x.answer = None /\ x.changed = {} /\ x.pc = "insert"
          /\ x.op = "create" /\ x.kind = "salon" /\ x.want = want
      BY DEF Catalogue!New
    <3> HIDE DEF x, want
    <3>4. CreationAsked(x)
      BY <3>2, <3>3 DEF CreationAsked
    <3>5. QED
      BY <3>1, <3>3, <3>4, CatalogueBegin
  <2>3. QED
    BY <2>1, <2>2
<1>2. ASSUME NEW n \in Names \cup {Blank}, NEW c \in Cities, NEW s \in DOMAIN Salon0,
             Catalogue!UpdateSalon(r, s, n, c)
      PROVE  CatalogueInv'
  <2> DEFINE want == [Catalogue!NoSalon EXCEPT !.name = n, !.city = c]
             x == [Catalogue!New EXCEPT !.pc = "find", !.op = "update", !.kind = "salon",
                   !.salon = s,
                              !.id = s, !.form = Catalogue!SalonForm, !.want = want]
  <2>1. CASE ~Catalogue!ValidName(n)
    BY <1>2, <2>1, CatalogueAnswer DEF Catalogue!UpdateSalon, Catalogue!Refuse, Catalogue!rows,
       Catalogue!Refusals
  <2>2. CASE Catalogue!ValidName(n)
    <3>1. Catalogue!Begin(r, x)
      BY <1>2, <2>2 DEF Catalogue!UpdateSalon
    <3>2. want.name \in Names /\ want.city \in Cities
      BY <2>2 DEF Catalogue!NoSalon, Catalogue!ValidName
    <3>3. /\ DOMAIN x = DOMAIN Catalogue!New /\ x.answer = None /\ x.changed = {} /\ x.pc = "find"
          /\ x.op = "update" /\ x.kind = "salon" /\ x.want = want /\ x.id = s
          /\ x.form = Catalogue!SalonForm
      BY DEF Catalogue!New
    <3>4. Catalogue!SalonForm \subseteq DOMAIN Catalogue!NoSalon \ {"status"}
      BY DEF Catalogue!SalonForm, Catalogue!NoSalon
    <3> HIDE DEF x, want
    <3>5. EditAsked(x)
      BY <3>2, <3>3, <3>4 DEF EditAsked, Edits
    <3>6. QED
      BY <3>1, <3>3, <3>5, CatalogueBegin
  <2>3. QED
    BY <2>1, <2>2
<1>3. ASSUME NEW s \in DOMAIN Salon0, NEW h \in Hours, Catalogue!SetOpeningHours(r, s, h)
      PROVE  CatalogueInv'
  <2> DEFINE want == [Catalogue!NoSalon EXCEPT !.opening_hours = h]
             x == [Catalogue!New EXCEPT !.pc = "find", !.op = "hours", !.kind = "salon",
                   !.salon = s,
                              !.id = s, !.form = {"opening_hours"}, !.want = want]
  <2>1. Catalogue!Begin(r, x)
    BY <1>3 DEF Catalogue!SetOpeningHours
  <2>2. /\ DOMAIN x = DOMAIN Catalogue!New /\ x.answer = None /\ x.changed = {} /\ x.pc = "find"
        /\ x.op = "hours" /\ x.kind = "salon" /\ x.id = s /\ x.form = {"opening_hours"}
    BY DEF Catalogue!New
  <2> HIDE DEF x, want
  <2>3. EditAsked(x)
    BY <2>2 DEF EditAsked, Edits, Catalogue!NoSalon
  <2>4. QED
    BY <2>1, <2>2, <2>3, CatalogueBegin
<1>4. ASSUME NEW c \in Cities \cup {None}, Catalogue!SearchSalons(r, c)
      PROVE  CatalogueInv'
  <2> DEFINE n == Catalogue!AtMost(Cardinality(Catalogue!Active(c)), SearchPage)
             want == [Catalogue!NoSalon EXCEPT !.city = c]
             x == [Catalogue!New EXCEPT !.pc = "count", !.op = "search", !.want = want, !.page = n]
  <2> HIDE DEF n, want
  <2>1. Catalogue!Begin(r, x)
    BY <1>4, CatalogueSizes DEF Catalogue!SearchSalons, n, want
  <2>2. DOMAIN x = DOMAIN Catalogue!New /\ x.answer = None /\ x.changed = {} /\ x.pc = "count"
    BY DEF Catalogue!New
  <2> HIDE DEF x
  <2>3. QED
    BY <2>1, <2>2, CatalogueBegin
<1>5. QED
  BY <1>1, <1>2, <1>3, <1>4 DEF Catalogue!OnSalon

LEMMA CatalogueServices ==
  ASSUME Catalogue!CatalogueAssumption, CatalogueInv, NEW r \in Requests, Catalogue!OnService(r)
  PROVE  CatalogueInv'
<1>1. ASSUME NEW s \in DOMAIN Salon0, NEW n \in Names \cup {Blank}, NEW p \in Prices,
             NEW d \in Durations, Catalogue!CreateService(r, s, n, p, d)
      PROVE  CatalogueInv'
  <2> DEFINE want == [salon |-> s, name |-> n, price |-> p, duration |-> d, is_active |-> TRUE]
             x == [Catalogue!New EXCEPT !.pc = "insert", !.op = "create", !.kind = "service",
                   !.salon = s,
                              !.want = want]
  <2>1. CASE Catalogue!Fault(n, p, d) # None
    <3>1. Catalogue!Fault(n, p, d) \in Catalogue!Refusals
      BY <2>1 DEF Catalogue!Fault, Catalogue!Refusals
    <3>2. QED
      BY <1>1, <2>1, <3>1, CatalogueAnswer DEF Catalogue!CreateService, Catalogue!Refuse,
         Catalogue!rows
  <2>2. CASE Catalogue!Fault(n, p, d) = None
    <3>1. Catalogue!Begin(r, x)
      BY <1>1, <2>2 DEF Catalogue!CreateService
    <3>2. Catalogue!ServiceFits(want)
      BY <2>2, CatalogueFaults DEF Catalogue!ServiceFits, Catalogue!NoService,
         Catalogue!CatalogueAssumption
    <3>3. /\ DOMAIN x = DOMAIN Catalogue!New /\ x.answer = None /\ x.changed = {} /\ x.pc = "insert"
          /\ x.op = "create" /\ x.kind = "service" /\ x.want = want
      BY DEF Catalogue!New
    <3> HIDE DEF x, want
    <3>4. CreationAsked(x)
      BY <3>2, <3>3 DEF CreationAsked
    <3>5. QED
      BY <3>1, <3>3, <3>4, CatalogueBegin
  <2>3. QED
    BY <2>1, <2>2
<1>2. ASSUME NEW s \in DOMAIN Salon0, NEW n \in Names \cup {Blank}, NEW p \in Prices,
             NEW d \in Durations, NEW id \in DOMAIN Service0,
             Catalogue!UpdateService(r, s, id, n, p, d)
      PROVE  CatalogueInv'
  <2> DEFINE want == [Catalogue!NoService EXCEPT !.name = n, !.price = p, !.duration = d]
             x == [Catalogue!New EXCEPT !.pc = "find", !.op = "update", !.kind = "service",
                   !.salon = s,
                              !.id = id, !.form = Catalogue!ServiceForm, !.want = want]
  <2>1. CASE Catalogue!Fault(n, p, d) # None
    <3>1. Catalogue!Fault(n, p, d) \in Catalogue!Refusals
      BY <2>1 DEF Catalogue!Fault, Catalogue!Refusals
    <3>2. QED
      BY <1>2, <2>1, <3>1, CatalogueAnswer DEF Catalogue!UpdateService, Catalogue!Refuse,
         Catalogue!rows
  <2>2. CASE Catalogue!Fault(n, p, d) = None
    <3>1. Catalogue!Begin(r, x)
      BY <1>2, <2>2 DEF Catalogue!UpdateService
    <3>2. Catalogue!ValidPrice(want.price) /\ Catalogue!ValidDuration(want.duration)
      BY <2>2, CatalogueFaults DEF Catalogue!NoService
    <3>3. /\ DOMAIN x = DOMAIN Catalogue!New /\ x.answer = None /\ x.changed = {} /\ x.pc = "find"
          /\ x.op = "update" /\ x.kind = "service" /\ x.want = want /\ x.id = id
          /\ x.form = Catalogue!ServiceForm /\ x.salon = s
      BY DEF Catalogue!New
    <3>4. Catalogue!ServiceForm \subseteq DOMAIN Catalogue!NoService \ {"salon"}
      BY DEF Catalogue!ServiceForm, Catalogue!NoService
    <3> HIDE DEF x, want
    <3>5. EditAsked(x)
      BY <3>2, <3>3, <3>4 DEF EditAsked, Edits
    <3>6. QED
      BY <3>1, <3>3, <3>5, CatalogueBegin
  <2>3. QED
    BY <2>1, <2>2
<1>3. ASSUME NEW s \in DOMAIN Salon0, NEW id \in DOMAIN Service0,
             NEW op \in {"deactivate", "reactivate"}, NEW active,
             Catalogue!SetActive(r, op, s, id, active)
      PROVE  CatalogueInv'
  <2> DEFINE want == [Catalogue!NoService EXCEPT !.is_active = active]
             x == [Catalogue!New EXCEPT !.pc = "find", !.op = op, !.kind = "service", !.salon = s,
                              !.id = id, !.form = {"is_active"}, !.want = want]
  <2>1. Catalogue!Begin(r, x)
    BY <1>3 DEF Catalogue!SetActive
  <2>2. /\ DOMAIN x = DOMAIN Catalogue!New /\ x.answer = None /\ x.changed = {} /\ x.pc = "find"
        /\ x.op = op /\ x.kind = "service" /\ x.id = id /\ x.salon = s /\ x.form = {"is_active"}
    BY DEF Catalogue!New
  <2> HIDE DEF x, want
  <2>3. EditAsked(x)
    BY <2>2 DEF EditAsked, Edits, Catalogue!NoService
  <2>4. QED
    BY <2>1, <2>2, <2>3, CatalogueBegin
<1>4. ASSUME NEW s \in DOMAIN Salon0, NEW id \in DOMAIN Service0, Catalogue!GetService(r, s, id)
      PROVE  CatalogueInv'
  <2> DEFINE a == IF services[id].salon = s THEN "ok" ELSE "ServiceNotFound"
             x == [Catalogue!New EXCEPT !.pc = "done", !.op = "get", !.answer = a]
  <2>1. Catalogue!Begin(r, x)
    BY <1>4 DEF Catalogue!GetService
  <2>2. a \in {None, "ok", "ServiceNotFound"}
    OBVIOUS
  <2> HIDE DEF a
  <2>3. DOMAIN x = DOMAIN Catalogue!New /\ x.answer = a /\ x.changed = {} /\ x.pc = "done"
    BY DEF Catalogue!New
  <2> HIDE DEF x
  <2>4. QED
    BY <2>1, <2>2, <2>3, CatalogueBegin
<1>5. ASSUME NEW s \in DOMAIN Salon0, NEW all \in BOOLEAN, Catalogue!ListServices(r, s, all)
      PROVE  CatalogueInv'
  <2> DEFINE n == Cardinality(Catalogue!ListSalonServices(s, all))
             x == [Catalogue!New EXCEPT !.pc = "done", !.op = "list", !.answer = "ok", !.total = n]
  <2> HIDE DEF n
  <2>1. Catalogue!Begin(r, x)
    BY <1>5, CatalogueSizes DEF Catalogue!ListServices, n
  <2>2. DOMAIN x = DOMAIN Catalogue!New /\ x.answer = "ok" /\ x.changed = {} /\ x.pc = "done"
    BY DEF Catalogue!New
  <2> HIDE DEF x
  <2>3. QED
    BY <2>1, <2>2, CatalogueBegin
<1>6. QED
  BY <1>1, <1>2, <1>3, <1>4, <1>5 DEF Catalogue!OnService, Catalogue!DeactivateService,
     Catalogue!ReactivateService

LEMMA CatalogueFind ==
  ASSUME Catalogue!CatalogueAssumption, CatalogueInv, NEW r \in Requests, Catalogue!Find(r)
  PROVE  CatalogueInv'
<1> DEFINE x == catalogueTxn[r]
<1>1. RequestFits(x) /\ x.pc = "find" /\ EditAsked(x)
  BY DEF CatalogueInv, RequestFits, Catalogue!Find
<1>2. CASE Catalogue!Absent(r)
  <2>1. Catalogue!NotFound(r) \in Catalogue!Refusals
    BY DEF Catalogue!NotFound, Catalogue!Refusals
  <2>2. QED
    BY <1>2, <2>1, CatalogueAnswer DEF Catalogue!Find, Catalogue!rows
<1>3. CASE ~Catalogue!Absent(r)
  <2> DEFINE c == IF x.op = "update" THEN Catalogue!Differing(r, Catalogue!Row(r)) ELSE {}
             y == [x EXCEPT !.pc = "load", !.seen = Catalogue!Row(r), !.changed = c]
  <2>1. /\ catalogueTxn' = [catalogueTxn EXCEPT ![r] = y]
        /\ UNCHANGED <<salons, services, catalogueTrail>>
    BY <1>3 DEF Catalogue!Find, Catalogue!rows
  <2>2. Present(x)
    BY <1>1, <1>3 DEF Catalogue!Absent, Present, Catalogue!Row, CatalogueInv, RowsFit, EditAsked,
       Catalogue!NoService,
                      Catalogue!CatalogueAssumption
  <2>3. c \subseteq Columns
    BY <1>1 DEF Catalogue!Differing, EditAsked, Columns
  <2>4. x.op = "update" => c = Apart(x, Catalogue!Row(r))
    BY DEF Catalogue!Differing, Apart
  <2>5. DOMAIN x = DOMAIN Catalogue!New
    BY <1>1 DEF RequestFits
  <2> HIDE DEF c
  <2>6. /\ DOMAIN y = DOMAIN Catalogue!New /\ y.pc = "load" /\ y.seen = Catalogue!Row(r)
        /\ y.changed = c
        /\ y.op = x.op /\ y.kind = x.kind /\ y.id = x.id /\ y.salon = x.salon /\ y.form = x.form
        /\ y.want = x.want /\ y.answer = x.answer
    BY <2>5 DEF Catalogue!New
  <2> HIDE DEF y
  <2>7. EditAsked(y) /\ Present(y) /\ (y.op = "update" => y.changed = Apart(y, y.seen))
    BY <1>1, <2>2, <2>4, <2>6 DEF EditAsked, Present, Apart
  <2>8. RequestFits(y)
    BY <1>1, <2>3, <2>6, <2>7 DEF RequestFits
  <2>9. QED
    BY <2>1, <2>8, CatalogueMove
<1>4. QED
  BY <1>2, <1>3

LEMMA CatalogueLoad ==
  ASSUME CatalogueInv, NEW r \in Requests, Catalogue!Load(r)
  PROVE  CatalogueInv'
<1> DEFINE x == catalogueTxn[r]
           d == Catalogue!Differing(r, Catalogue!Row(r))
           y == [x EXCEPT !.pc = "flush", !.loaded = Catalogue!Row(r), !.set = d]
<1>1. RequestFits(x) /\ x.pc = "load" /\ EditAsked(x) /\ Present(x) /\ x.op # "create"
  BY DEF CatalogueInv, RequestFits, Catalogue!Load, EditAsked, Edits
<1>2. /\ catalogueTxn' = [catalogueTxn EXCEPT ![r] = y]
      /\ UNCHANGED <<salons, services, catalogueTrail>>
  BY DEF Catalogue!Load, Catalogue!rows
<1>3. d = Apart(x, Catalogue!Row(r))
  BY DEF Catalogue!Differing, Apart
<1>4. DOMAIN x = DOMAIN Catalogue!New
  BY <1>1 DEF RequestFits
<1> HIDE DEF d
<1>5. /\ DOMAIN y = DOMAIN Catalogue!New /\ y.pc = "flush" /\ y.loaded = Catalogue!Row(r)
      /\ y.set = d
      /\ y.op = x.op /\ y.kind = x.kind /\ y.id = x.id /\ y.salon = x.salon /\ y.form = x.form
      /\ y.want = x.want /\ y.answer = x.answer /\ y.changed = x.changed /\ y.seen = x.seen
  BY <1>4 DEF Catalogue!New
<1> HIDE DEF y
<1>6. /\ EditAsked(y) /\ Present(y) /\ y.set = Apart(y, y.loaded)
      /\ y.op = "update" => y.changed = Apart(y, y.seen)
  BY <1>1, <1>3, <1>5 DEF EditAsked, Present, Apart, RequestFits
<1>7. RequestFits(y)
  BY <1>1, <1>5, <1>6 DEF RequestFits
<1>8. QED
  BY <1>2, <1>7, CatalogueMove

LEMMA CatalogueFlush ==
  ASSUME CatalogueInv, NEW r \in Requests, Catalogue!Flush(r)
  PROVE  CatalogueInv'
<1> DEFINE x == catalogueTxn[r]
           y == [x EXCEPT !.pc = "flushed"]
<1>1. RequestFits(x) /\ x.pc = "flush" /\ EditAsked(x)
  BY DEF CatalogueInv, RequestFits, Catalogue!Flush
<1>2. /\ catalogueTxn' = [catalogueTxn EXCEPT ![r] = y]
      /\ UNCHANGED <<salons, services, catalogueTrail>>
  BY DEF Catalogue!Flush, Catalogue!rows
<1>3. DOMAIN x = DOMAIN Catalogue!New
  BY <1>1 DEF RequestFits
<1>4. /\ DOMAIN y = DOMAIN Catalogue!New /\ y.pc = "flushed" /\ y.loaded = x.loaded /\ y.set = x.set
      /\ y.op = x.op /\ y.kind = x.kind /\ y.id = x.id /\ y.salon = x.salon /\ y.form = x.form
      /\ y.want = x.want /\ y.answer = x.answer /\ y.changed = x.changed /\ y.seen = x.seen
  BY <1>3 DEF Catalogue!New
<1> HIDE DEF y
<1>5. RequestFits(y)
  BY <1>1, <1>4 DEF RequestFits, EditAsked, Present, Apart
<1>6. QED
  BY <1>2, <1>5, CatalogueMove

LEMMA CatalogueInsert ==
  ASSUME CatalogueInv, NEW r \in Requests, Catalogue!Insert(r)
  PROVE  CatalogueInv'
<1> DEFINE x == catalogueTxn[r]
           fresh == IF x.kind = "salon" THEN Catalogue!FreshSalon ELSE Catalogue!FreshService
           i == CHOOSE s \in fresh : TRUE
           y == [x EXCEPT !.pc = "flushed", !.id = i]
<1>1. RequestFits(x) /\ x.pc = "insert" /\ CreationAsked(x)
  BY DEF CatalogueInv, RequestFits, Catalogue!Insert
<1>2. /\ fresh # {} /\ catalogueTxn' = [catalogueTxn EXCEPT ![r] = y]
      /\ UNCHANGED <<salons, services, catalogueTrail>>
  BY DEF Catalogue!Insert, Catalogue!rows
<1>3. i \in IF x.kind = "salon" THEN Listed ELSE Services
  BY <1>2 DEF Catalogue!FreshSalon, Catalogue!FreshService
<1>4. DOMAIN x = DOMAIN Catalogue!New
  BY <1>1 DEF RequestFits
<1> HIDE DEF i
<1>5. /\ DOMAIN y = DOMAIN Catalogue!New /\ y.pc = "flushed" /\ y.op = x.op /\ y.kind = x.kind
      /\ y.id = i
      /\ y.want = x.want /\ y.answer = x.answer /\ y.changed = x.changed
  BY <1>4 DEF Catalogue!New
<1> HIDE DEF y
<1>6. CreationAsked(y) /\ y.op = "create"
  BY <1>1, <1>5 DEF CreationAsked
<1>7. RequestFits(y)
  BY <1>1, <1>3, <1>5, <1>6 DEF RequestFits
<1>8. QED
  BY <1>2, <1>7, CatalogueMove

LEMMA CatalogueCounted ==
  ASSUME CatalogueInv, NEW r \in Requests, Catalogue!CountActive(r)
  PROVE  CatalogueInv'
<1> DEFINE x == catalogueTxn[r]
           n == Cardinality(Catalogue!Active(x.want.city))
           y == [x EXCEPT !.pc = "done", !.answer = "ok", !.total = n]
<1>1. RequestFits(x)
  BY DEF CatalogueInv
<1>2. /\ catalogueTxn' = [catalogueTxn EXCEPT ![r] = y]
      /\ UNCHANGED <<salons, services, catalogueTrail>>
  BY CatalogueSizes DEF Catalogue!CountActive, Catalogue!rows
<1>3. DOMAIN x = DOMAIN Catalogue!New
  BY <1>1 DEF RequestFits
<1> HIDE DEF n
<1>4. DOMAIN y = DOMAIN Catalogue!New /\ y.pc = "done" /\ y.answer = "ok" /\ y.changed = x.changed
  BY <1>3 DEF Catalogue!New
<1> HIDE DEF y
<1>5. RequestFits(y)
  BY <1>1, <1>4 DEF RequestFits
<1>6. QED
  BY <1>2, <1>5, CatalogueMove

(* The row that a commit leaves.                                           *)
LEMMA CatalogueWritten ==
  ASSUME Catalogue!CatalogueAssumption, CatalogueInv, NEW r \in Requests,
         catalogueTxn[r].pc = "flushed"
  PROVE  /\ \/ catalogueTxn[r].kind = "salon" /\ catalogueTxn[r].id \in Listed
                 /\ Catalogue!SalonFits(Catalogue!Written(r))
            \/ catalogueTxn[r].kind = "service" /\ catalogueTxn[r].id \in Services
                 /\ Catalogue!ServiceFits(Catalogue!Written(r))
         /\ catalogueTxn[r].op \in Edits \cup {"create"}
         /\ catalogueTxn[r].changed \subseteq Columns
<1> DEFINE x == catalogueTxn[r]
<1>1. RequestFits(x) /\ x.pc = "flushed"
  BY DEF CatalogueInv
<1>2. CASE EditAsked(x)
  <2>1. x.op \in Edits /\ x.op # "create" /\ Present(x) /\ x.set = Apart(x, x.loaded)
    BY <1>1, <1>2 DEF RequestFits, EditAsked, Edits
  <2>2. x.set \subseteq x.form /\ x.changed \subseteq Columns
    BY <1>1, <2>1 DEF Apart, RequestFits
  <2>3. Catalogue!Written(r) = [k \in DOMAIN Catalogue!Row(r) |-> IF k \in x.set THEN x.want[k]
                                ELSE Catalogue!Row(r)[k]]
    BY <2>1 DEF Catalogue!Written
  <2>4. CASE x.kind = "salon"
    <3>1. /\ x.id \in Listed /\ Catalogue!SalonFits(Catalogue!Row(r))
          /\ x.set \subseteq DOMAIN Catalogue!NoSalon \ {"status"}
      BY <1>2, <2>1, <2>2, <2>4 DEF EditAsked, Present, Catalogue!Row, Catalogue!CatalogueAssumption
    <3>2. /\ "name" \in x.set => x.want.name \in Names
          /\ "city" \in x.set => x.want.city \in Cities
      BY <1>2, <2>2, <2>4 DEF EditAsked
    <3>3. DOMAIN Catalogue!Row(r) = {"name", "city", "status", "opening_hours"}
          /\ Catalogue!Row(r).name \in Names /\ Catalogue!Row(r).city \in Cities
          /\ Catalogue!Row(r).status # None
      BY <3>1 DEF Catalogue!SalonFits, Catalogue!NoSalon
    <3>4. Catalogue!SalonFits(Catalogue!Written(r))
      BY <2>3, <3>1, <3>2, <3>3 DEF Catalogue!SalonFits, Catalogue!NoSalon
    <3>5. QED
      BY <2>1, <2>2, <2>4, <3>1, <3>4
  <2>5. CASE x.kind # "salon"
    <3>1. /\ x.kind = "service" /\ x.id \in Services /\ Catalogue!ServiceFits(Catalogue!Row(r))
          /\ x.set \subseteq DOMAIN Catalogue!NoService \ {"salon"}
      BY <1>2, <2>1, <2>2, <2>5 DEF EditAsked, Present, Catalogue!Row, Catalogue!CatalogueAssumption
    <3>2. /\ "price" \in x.set => Catalogue!ValidPrice(x.want.price)
          /\ "duration" \in x.set => Catalogue!ValidDuration(x.want.duration)
      BY <1>2, <2>2, <2>5 DEF EditAsked
    <3>3. /\ DOMAIN Catalogue!Row(r) = {"salon", "name", "price", "duration", "is_active"}
          /\ Catalogue!Row(r).salon \in Listed /\ Catalogue!ValidPrice(Catalogue!Row(r).price)
          /\ Catalogue!ValidDuration(Catalogue!Row(r).duration)
      BY <3>1 DEF Catalogue!ServiceFits, Catalogue!NoService
    <3>4. Catalogue!ServiceFits(Catalogue!Written(r))
      BY <2>3, <3>1, <3>2, <3>3 DEF Catalogue!ServiceFits, Catalogue!NoService
    <3>5. QED
      BY <2>1, <2>2, <3>1, <3>4
  <2>6. QED
    BY <2>4, <2>5
<1>3. CASE ~EditAsked(x)
  <2>1. CreationAsked(x) /\ x.id \in IF x.kind = "salon" THEN Listed ELSE Services
    BY <1>1, <1>3 DEF RequestFits
  <2>2. Catalogue!Written(r) = x.want /\ x.changed \subseteq Columns
    BY <1>1, <2>1 DEF Catalogue!Written, CreationAsked, RequestFits
  <2>3. QED
    BY <2>1, <2>2 DEF CreationAsked
<1>4. QED
  BY <1>2, <1>3

LEMMA CatalogueCommit ==
  ASSUME Catalogue!CatalogueAssumption, CatalogueInv, NEW r \in Requests, Catalogue!Commit(r)
  PROVE  CatalogueInv'
<1> DEFINE x == catalogueTxn[r]
           w == Catalogue!Written(r)
           y == [Catalogue!New EXCEPT !.pc = "done", !.answer = "ok"]
<1>1. /\ \/ x.kind = "salon" /\ x.id \in Listed /\ Catalogue!SalonFits(w)
         \/ x.kind = "service" /\ x.id \in Services /\ Catalogue!ServiceFits(w)
      /\ x.op \in Edits \cup {"create"} /\ x.changed \subseteq Columns
  BY CatalogueWritten DEF Catalogue!Commit
<1>2. /\ IF x.kind = "salon" THEN salons' = [salons EXCEPT ![x.id] = w] /\ UNCHANGED services
         ELSE services' = [services EXCEPT ![x.id] = w] /\ UNCHANGED salons
      /\ catalogueTxn' = [catalogueTxn EXCEPT ![r] = y]
  BY DEF Catalogue!Commit, Catalogue!Answer
<1> HIDE DEF w
<1>3. RowsFit'
  BY <1>1, <1>2 DEF CatalogueInv, RowsFit
<1>4. /\ \A s \in Listed : Catalogue!SalonFits(salons[s]) => Catalogue!SalonFits(salons'[s])
      /\ \A id \in Services : Catalogue!ServiceFits(services[id]) =>
           Catalogue!ServiceFits(services'[id])
  BY <1>1, <1>2 DEF CatalogueInv, RowsFit
<1>5. ASSUME NEW q \in Requests PROVE RequestFits(catalogueTxn[q])'
  <2>1. CASE q = r
    <3>1. catalogueTxn'[q] = y
      BY <1>2, <2>1 DEF CatalogueInv
    <3>2. y.pc = "done" /\ y.answer = "ok" /\ y.changed = {} /\ DOMAIN y = DOMAIN Catalogue!New
      BY DEF Catalogue!New
    <3> HIDE DEF y
    <3>3. QED
      BY <3>1, <3>2 DEF RequestFits
  <2>2. CASE q # r
    <3>1. catalogueTxn'[q] = catalogueTxn[q] /\ RequestFits(catalogueTxn[q])
      BY <1>2, <2>2 DEF CatalogueInv
    <3>2. catalogueTxn[q].pc \in {"load", "flush", "flushed"} /\ catalogueTxn[q].op # "create" =>
            EditAsked(catalogueTxn[q]) /\ Present(catalogueTxn[q])
      BY <3>1 DEF RequestFits, CreationAsked
    <3>3. EditAsked(catalogueTxn[q]) /\ Present(catalogueTxn[q]) => Present(catalogueTxn[q])'
      BY <1>4, <3>1 DEF EditAsked, Present, Catalogue!CatalogueAssumption
    <3>4. QED
      BY <3>1, <3>2, <3>3 DEF RequestFits
  <2>3. QED
    BY <2>1, <2>2
<1>6. DOMAIN catalogueTxn' = Requests
  BY <1>2 DEF CatalogueInv
<1>7. catalogueTrail' \in Seq(TrailLines)
  <2>1. [action |-> x.op, id |-> x.id, changed |-> x.changed] \in TrailLines
    BY <1>1 DEF TrailLines
  <2>2. catalogueTrail' = catalogueTrail
        \/ catalogueTrail' = Append(catalogueTrail,
                                    [action |-> x.op, id |-> x.id, changed |-> x.changed])
    BY DEF Catalogue!Commit
  <2>3. QED
    BY <2>1, <2>2 DEF CatalogueInv
<1>8. QED
  BY <1>3, <1>5, <1>6, <1>7 DEF CatalogueInv

LEMMA CatalogueStart == ASSUME Catalogue!CatalogueAssumption, Catalogue!Init PROVE CatalogueInv
<1>1. RowsFit
  BY DEF Catalogue!Init, RowsFit, Catalogue!CatalogueAssumption
<1>2. RequestFits(Catalogue!New)
  BY DEF RequestFits, Catalogue!New
<1>3. DOMAIN catalogueTxn = Requests /\ \A r \in Requests : catalogueTxn[r] = Catalogue!New
  BY DEF Catalogue!Init
<1>4. QED
  BY <1>1, <1>2, <1>3 DEF CatalogueInv, Catalogue!Init

LEMMA CatalogueStep ==
  ASSUME Catalogue!CatalogueAssumption, CatalogueInv, [Catalogue!Next]_Catalogue!vars
  PROVE  CatalogueInv'
<1>1. CASE UNCHANGED Catalogue!vars
  BY <1>1 DEF Catalogue!vars, CatalogueInv, RowsFit, RequestFits, Present
<1>2. ASSUME NEW r \in Requests, Catalogue!Abort(r) PROVE CatalogueInv'
  BY <1>2, CatalogueAnswer DEF Catalogue!Abort, Catalogue!rows
<1>3. ASSUME NEW r \in Requests, Catalogue!Serve(r) PROVE CatalogueInv'
  BY <1>3, CatalogueFind, CatalogueLoad, CatalogueFlush, CatalogueInsert, CatalogueCommit,
     CatalogueCounted DEF Catalogue!Serve
<1>4. QED
  BY <1>1, <1>2, <1>3, CatalogueForms, CatalogueServices DEF Catalogue!Next

LEMMA CatalogueAlways == ASSUME Catalogue!CatalogueAssumption PROVE Catalogue!Spec => []CatalogueInv
<1>1. Catalogue!Init => CatalogueInv
  BY CatalogueStart
<1>2. CatalogueInv /\ [Catalogue!Next]_Catalogue!vars => CatalogueInv'
  BY CatalogueStep
<1>3. QED
  BY <1>1, <1>2, PTL DEF Catalogue!Spec

LEMMA CatalogueTyped == ASSUME CatalogueInv PROVE Catalogue!TypeOK
BY DEF CatalogueInv, RowsFit, RequestFits, Catalogue!TypeOK

(* What commits is a Commit.                                               *)
LEMMA CatalogueCommits ==
  ASSUME Catalogue!CatalogueAssumption, CatalogueInv, [Catalogue!Next]_Catalogue!vars,
         NEW r \in Requests, Catalogue!Commits(r)
  PROVE  Catalogue!Commit(r)
<1>1. /\ catalogueTxn[r].answer = None /\ catalogueTxn[r].pc = "flushed"
      /\ catalogueTxn'[r].answer = "ok" /\ catalogueTxn'[r] # catalogueTxn[r]
  BY DEF Catalogue!Commits, CatalogueInv, RequestFits, Catalogue!CatalogueAssumption
<1>2. PICK q \in Requests : Catalogue!OnSalon(q) \/ Catalogue!OnService(q) \/ Catalogue!Serve(q)
             \/ Catalogue!Abort(q)
  BY <1>1 DEF Catalogue!Next, Catalogue!vars
<1>3. DOMAIN catalogueTxn = Requests
  BY DEF CatalogueInv
<1>4. Catalogue!Abort(q) => catalogueTxn' = [catalogueTxn EXCEPT ![q] =
            [Catalogue!New EXCEPT !.pc = "done", !.answer = "error"]]
  BY DEF Catalogue!Abort, Catalogue!Answer
<1>5. Catalogue!Abort(q) => q # r
  BY <1>1, <1>3, <1>4 DEF Catalogue!New
<1>6. q # r => catalogueTxn'[r] = catalogueTxn[r]
  <2> SUFFICES ASSUME q # r PROVE catalogueTxn'[r] = catalogueTxn[r]
    OBVIOUS
  <2>1. \A a : Catalogue!Answer(q, a) \/ Catalogue!Refuse(q, a) \/ Catalogue!Begin(q, a) =>
          catalogueTxn'[r] = catalogueTxn[r]
    BY <1>3 DEF Catalogue!Answer, Catalogue!Refuse, Catalogue!Begin
  <2>2. ASSUME Catalogue!OnSalon(q) PROVE catalogueTxn'[r] = catalogueTxn[r]
    <3>1. \A n, c, s : Catalogue!CreateSalon(q, n, c) \/ Catalogue!UpdateSalon(q, s, n, c) =>
            catalogueTxn'[r] = catalogueTxn[r]
      BY <2>1 DEF Catalogue!CreateSalon, Catalogue!UpdateSalon
    <3>2. \A s, h : Catalogue!SetOpeningHours(q, s, h) \/ Catalogue!SearchSalons(q, s) =>
            catalogueTxn'[r] = catalogueTxn[r]
      BY <2>1 DEF Catalogue!SetOpeningHours, Catalogue!SearchSalons
    <3>3. QED
      BY <2>2, <3>1, <3>2 DEF Catalogue!OnSalon
  <2>3. ASSUME Catalogue!OnService(q) PROVE catalogueTxn'[r] = catalogueTxn[r]
    <3>1. \A s, n, p, d : Catalogue!CreateService(q, s, n, p, d) =>
            catalogueTxn'[r] = catalogueTxn[r]
      BY <2>1 DEF Catalogue!CreateService
    <3>2. \A s, id, n, p, d : Catalogue!UpdateService(q, s, id, n, p, d) =>
            catalogueTxn'[r] = catalogueTxn[r]
      BY <2>1 DEF Catalogue!UpdateService
    <3>3. \A op, s, id, active : Catalogue!SetActive(q, op, s, id, active) =>
            catalogueTxn'[r] = catalogueTxn[r]
      BY <2>1 DEF Catalogue!SetActive
    <3>4. \A s, x : Catalogue!GetService(q, s, x) \/ Catalogue!ListServices(q, s, x) =>
            catalogueTxn'[r] = catalogueTxn[r]
      BY <2>1 DEF Catalogue!GetService, Catalogue!ListServices
    <3>5. QED
      BY <2>3, <3>1, <3>2, <3>3, <3>4 DEF Catalogue!OnService, Catalogue!DeactivateService,
         Catalogue!ReactivateService
  <2>4. Catalogue!Serve(q) \/ Catalogue!Abort(q) => catalogueTxn'[r] = catalogueTxn[r]
    BY <1>3, <2>1 DEF Catalogue!Serve, Catalogue!Abort, Catalogue!Find, Catalogue!Load,
       Catalogue!Flush, Catalogue!Insert, Catalogue!Commit, Catalogue!CountActive
  <2>5. QED
    BY <1>2, <2>1, <2>2, <2>3, <2>4
<1>7. q = r
  BY <1>1, <1>6
<1>8. catalogueTxn[r].pc # "new" /\ ~Catalogue!OnSalon(r) /\ ~Catalogue!OnService(r)
  BY <1>1 DEF Catalogue!OnSalon, Catalogue!OnService, Catalogue!CreateSalon, Catalogue!UpdateSalon,
     Catalogue!SetOpeningHours, Catalogue!SearchSalons,
     Catalogue!CreateService, Catalogue!UpdateService, Catalogue!DeactivateService,
       Catalogue!ReactivateService, Catalogue!SetActive, Catalogue!GetService,
     Catalogue!ListServices, Catalogue!Refuse, Catalogue!Begin
<1>9. QED
  BY <1>1, <1>2, <1>5, <1>7, <1>8 DEF Catalogue!Serve, Catalogue!Find, Catalogue!Load,
     Catalogue!Flush, Catalogue!Insert, Catalogue!CountActive

(* An edit that commits, and the row before and after.                     *)
LEMMA CatalogueEdit ==
  ASSUME Catalogue!CatalogueAssumption, CatalogueInv, [Catalogue!Next]_Catalogue!vars,
         NEW r \in Requests, Catalogue!Commits(r)
  PROVE  /\ Catalogue!Commit(r) /\ Catalogue!After(r) = Catalogue!Written(r)
         /\ catalogueTxn[r].form \subseteq DOMAIN Catalogue!Row(r)
         /\ catalogueTxn[r].set = Apart(catalogueTxn[r], catalogueTxn[r].loaded)
         /\ DOMAIN Catalogue!After(r) = DOMAIN Catalogue!Row(r)
         /\ \A k \in DOMAIN Catalogue!Row(r) :
              Catalogue!After(r)[k] = IF k \in catalogueTxn[r].set THEN catalogueTxn[r].want[k]
                ELSE Catalogue!Row(r)[k]
         /\ catalogueTxn[r].op = "update" => catalogueTxn[r].changed =
              Apart(catalogueTxn[r], catalogueTxn[r].seen)
<1> DEFINE x == catalogueTxn[r]
<1>1. Catalogue!Commit(r) /\ x.pc = "flushed" /\ x.op # "create" /\ RequestFits(x)
  BY CatalogueCommits DEF Catalogue!Commits, CatalogueInv
<1>2. EditAsked(x) /\ Present(x)
  BY <1>1 DEF RequestFits, CreationAsked
<1>3. DOMAIN salons = Listed /\ DOMAIN services = Services
  BY DEF CatalogueInv, RowsFit
<1>4. Catalogue!After(r) = Catalogue!Written(r)
  <2>1. /\ x.kind = "salon" => x.id \in Listed
             /\ salons' = [salons EXCEPT ![x.id] = Catalogue!Written(r)]
        /\ x.kind # "salon" => x.id \in Services
             /\ services' = [services EXCEPT ![x.id] = Catalogue!Written(r)]
    BY <1>1, <1>2 DEF Catalogue!Commit, EditAsked, Catalogue!CatalogueAssumption
  <2>2. QED
    BY <1>3, <2>1 DEF Catalogue!After
<1>5. x.form \subseteq DOMAIN Catalogue!Row(r)
  BY <1>2 DEF EditAsked, Present, Catalogue!Row, Catalogue!SalonFits, Catalogue!ServiceFits
<1>6. Catalogue!Written(r) = [k \in DOMAIN Catalogue!Row(r) |-> IF k \in x.set THEN x.want[k]
                              ELSE Catalogue!Row(r)[k]]
  BY <1>1 DEF Catalogue!Written
<1>7. QED
  BY <1>1, <1>4, <1>5, <1>6 DEF RequestFits

LEMMA CatalogueTakesEffect ==
  ASSUME Catalogue!CatalogueAssumption
  PROVE  Catalogue!Spec => Catalogue!EditsTakeEffect
<1>1. ASSUME CatalogueInv, [Catalogue!Next]_Catalogue!vars, NEW r \in Requests, Catalogue!Commits(r)
      PROVE  /\ catalogueTxn[r].loaded = Catalogue!Row(r) =>
                  \A k \in catalogueTxn[r].form : Catalogue!After(r)[k] = catalogueTxn[r].want[k]
             /\ \A k \in DOMAIN Catalogue!Row(r) \ catalogueTxn[r].form :
                  Catalogue!After(r)[k] = Catalogue!Row(r)[k]
  <2>1. /\ catalogueTxn[r].form \subseteq DOMAIN Catalogue!Row(r)
        /\ catalogueTxn[r].set = Apart(catalogueTxn[r], catalogueTxn[r].loaded)
        /\ \A k \in DOMAIN Catalogue!Row(r) :
             Catalogue!After(r)[k] = IF k \in catalogueTxn[r].set THEN catalogueTxn[r].want[k]
               ELSE Catalogue!Row(r)[k]
    BY <1>1, CatalogueEdit
  <2>2. QED
    BY <2>1 DEF Apart
<1>2. CatalogueInv /\ [Catalogue!Next]_Catalogue!vars =>
        [\A r \in Requests : Catalogue!Commits(r) =>
           /\ catalogueTxn[r].loaded = Catalogue!Row(r) =>
                \A k \in catalogueTxn[r].form : Catalogue!After(r)[k] = catalogueTxn[r].want[k]
           /\ \A k \in DOMAIN Catalogue!Row(r) \ catalogueTxn[r].form :
                Catalogue!After(r)[k] = Catalogue!Row(r)[k]]_Catalogue!vars
  BY <1>1
<1>3. QED
  BY <1>2, CatalogueAlways, PTL DEF Catalogue!Spec, Catalogue!EditsTakeEffect

LEMMA CatalogueLogs ==
  ASSUME Catalogue!CatalogueAssumption
  PROVE  Catalogue!Spec => Catalogue!ChangesAreLogged
<1>1. ASSUME CatalogueInv, [Catalogue!Next]_Catalogue!vars, NEW r \in Requests,
             Catalogue!Commits(r), catalogueTxn[r].op = "update",
               catalogueTxn[r].seen = Catalogue!Row(r)
      PROVE  {k \in DOMAIN Catalogue!Row(r) : Catalogue!After(r)[k] # Catalogue!Row(r)[k]}
               \subseteq catalogueTrail'[Len(catalogueTrail')].changed
  <2> DEFINE line == [action |-> catalogueTxn[r].op, id |-> catalogueTxn[r].id,
                      changed |-> catalogueTxn[r].changed]
  <2>1. /\ Catalogue!Commit(r)
        /\ catalogueTxn[r].set = Apart(catalogueTxn[r], catalogueTxn[r].loaded)
        /\ \A k \in DOMAIN Catalogue!Row(r) :
             Catalogue!After(r)[k] = IF k \in catalogueTxn[r].set THEN catalogueTxn[r].want[k]
               ELSE Catalogue!Row(r)[k]
        /\ catalogueTxn[r].changed = Apart(catalogueTxn[r], catalogueTxn[r].seen)
    BY <1>1, CatalogueEdit
  <2>2. line \in TrailLines /\ catalogueTrail \in Seq(TrailLines)
    <3>1. /\ \/ catalogueTxn[r].kind = "salon" /\ catalogueTxn[r].id \in Listed
             \/ catalogueTxn[r].kind = "service" /\ catalogueTxn[r].id \in Services
          /\ catalogueTxn[r].op \in Edits \cup {"create"}
          /\ catalogueTxn[r].changed \subseteq Columns
      BY <1>1, CatalogueWritten DEF Catalogue!Commits
    <3>2. QED
      BY <1>1, <3>1 DEF TrailLines, CatalogueInv
  <2>3. catalogueTrail' = Append(catalogueTrail, line)
    BY <1>1, <2>1 DEF Catalogue!Commit, Catalogue!Logged
  <2> HIDE DEF line
  <2>4. catalogueTrail'[Len(catalogueTrail')] = line
    BY <2>2, <2>3
  <2>5. catalogueTrail'[Len(catalogueTrail')].changed = catalogueTxn[r].changed
    BY <2>4 DEF line
  <2>6. QED
    BY <1>1, <2>1, <2>5 DEF Apart
<1>2. CatalogueInv /\ [Catalogue!Next]_Catalogue!vars =>
        [\A r \in Requests :
           Catalogue!Commits(r) /\ catalogueTxn[r].op = "update"
             /\ catalogueTxn[r].seen = Catalogue!Row(r) =>
             {k \in DOMAIN Catalogue!Row(r) : Catalogue!After(r)[k] # Catalogue!Row(r)[k]}
               \subseteq catalogueTrail'[Len(catalogueTrail')].changed]_Catalogue!vars
  BY <1>1
<1>3. QED
  BY <1>2, CatalogueAlways, PTL DEF Catalogue!Spec, Catalogue!ChangesAreLogged

-----------------------------------------------------------------------------
(* The opening hours (OpeningHours).                                       *)

(* What is stored comes from a body that was accepted, and an answer from  *)
(* what is stored.                                                         *)
HoursInv ==
  /\ hours # None => \E p \in Payloads : Opening!Accept(p) /\ saved = p
       /\ hours = Opening!Canonical(p)
  /\ \/ offer = Opening!NoOffer
     \/ \E p \in Payloads : ~Opening!Accept(p) /\ offer = [query |-> p, slots |-> {}]
     \/ \E q \in Queries : hours # None /\ offer =
          [query |-> q, slots |-> Opening!FreeSlots(hours, q)]

LEMMA HoursStart == Opening!Init => HoursInv
BY DEF Opening!Init, HoursInv

LEMMA HoursStep == ASSUME HoursInv, [Opening!Next]_Opening!vars PROVE HoursInv'
<1>1. ASSUME NEW p \in Payloads, Opening!SetOpeningHours(p) PROVE HoursInv'
  BY <1>1 DEF Opening!SetOpeningHours, HoursInv, Opening!NoOffer
<1>2. ASSUME NEW p \in Payloads, Opening!RefuseOpeningHours(p) PROVE HoursInv'
  BY <1>2 DEF Opening!RefuseOpeningHours, HoursInv, Opening!NoOffer
<1>3. ASSUME NEW q \in Queries, Opening!Ask(q) PROVE HoursInv'
  BY <1>3 DEF Opening!Ask, HoursInv, Opening!NoOffer
<1>4. CASE UNCHANGED Opening!vars
  BY <1>4 DEF Opening!vars, HoursInv
<1>5. QED
  BY <1>1, <1>2, <1>3, <1>4 DEF Opening!Next

LEMMA HoursAlways == Opening!Spec => []HoursInv
<1>1. HoursInv /\ [Opening!Next]_Opening!vars => HoursInv'
  BY HoursStep
<1>2. QED
  BY <1>1, HoursStart, PTL DEF Opening!Spec

-----------------------------------------------------------------------------
(* Sorting by rank.  Every place is the rank of one element, so that what  *)
(* is sorted is a permutation in which the keys do not decrease.           *)

(* i does not come after j in the order of list.sort.                      *)
UpTo(key, i) == {j \in DOMAIN key : key[j] < key[i] \/ (key[j] = key[i] /\ j <= i)}

LEMMA CountsAreFinite ==
  ASSUME NEW n \in Nat
  PROVE  IsFiniteSet(1 .. n) /\ Cardinality(1 .. n) = n
BY FS_Interval

LEMMA RankBounds ==
  ASSUME NEW n \in Nat, NEW key \in [1 .. n -> Int], NEW i \in 1 .. n
  PROVE  /\ Opening!Rank(key, i) \in 1 .. n /\ IsFiniteSet(UpTo(key, i))
         /\ Opening!Rank(key, i) = Cardinality(UpTo(key, i))
<1>1. UpTo(key, i) \in SUBSET (1 .. n) /\ i \in UpTo(key, i)
  BY DEF UpTo
<1>2. IsFiniteSet(1 .. n) /\ Cardinality(1 .. n) = n
  BY CountsAreFinite
<1>3. IsFiniteSet(UpTo(key, i)) /\ Cardinality(UpTo(key, i)) <= n
  BY <1>1, <1>2, FS_Subset
<1>4. Cardinality(UpTo(key, i)) \in Nat /\ Cardinality(UpTo(key, i)) # 0
  BY <1>1, <1>3, FS_CardinalityType, FS_EmptySet
<1>5. Opening!Rank(key, i) = Cardinality(UpTo(key, i))
  BY HoursSizes DEF Opening!Rank, UpTo
<1>6. QED
  BY <1>3, <1>4, <1>5

(* The rank tells any two positions apart, and grows with the key.         *)
LEMMA RankGrows ==
  ASSUME NEW n \in Nat, NEW key \in [1 .. n -> Int], NEW i \in 1 .. n, NEW j \in 1 .. n,
         Opening!Rank(key, i) <= Opening!Rank(key, j)
  PROVE  key[i] <= key[j] /\ (Opening!Rank(key, i) = Opening!Rank(key, j) => i = j)
<1> DEFINE U == UpTo(key, i)
           V == UpTo(key, j)
<1>1. CASE i \in V
  <2>1. key[i] <= key[j]
    BY <1>1 DEF UpTo
  <2>2. ASSUME i # j, Opening!Rank(key, i) = Opening!Rank(key, j) PROVE FALSE
    <3>1. U \in SUBSET V /\ j \in V /\ j \notin U
      BY <1>1, <2>2 DEF UpTo
    <3>2. IsFiniteSet(V) /\ Cardinality(V) = Cardinality(U)
      BY <2>2, RankBounds
    <3>3. QED
      BY <3>1, <3>2, FS_Subset
  <2>3. QED
    BY <2>1, <2>2
<1>2. CASE i \notin V
  <2>1. V \in SUBSET U /\ i \in U
    BY <1>2 DEF UpTo
  <2>2. /\ IsFiniteSet(U) /\ Cardinality(U) = Opening!Rank(key, i)
        /\ Cardinality(V) = Opening!Rank(key, j)
        /\ Opening!Rank(key, i) \in Int /\ Opening!Rank(key, j) \in Int
    BY RankBounds
  <2>3. Cardinality(U) = Cardinality(V)
    BY <2>1, <2>2, FS_Subset
  <2>4. QED
    BY <1>2, <2>1, <2>2, <2>3, FS_Subset
<1>3. QED
  BY <1>1, <1>2

(* A permutation of the positions 1 .. n.                                  *)
Shuffles(f, n) == /\ f \in [1 .. n -> 1 .. n]
                  /\ \A a, b \in 1 .. n : f[a] = f[b] => a = b
                  /\ \A i \in 1 .. n : \E k \in 1 .. n : f[k] = i

(* What list.sort returns: the elements in another order, by their keys.   *)
Order(key, n) == [k \in 1 .. n |-> CHOOSE i \in 1 .. n : Opening!Rank(key, i) = k]

LEMMA SortedShuffles ==
  ASSUME NEW n \in Nat, NEW key \in [1 .. n -> Int], NEW seq, DOMAIN seq = 1 .. n
  PROVE  /\ Shuffles(Order(key, n), n)
         /\ Opening!Sorted(key, seq) = [k \in 1 .. n |-> seq[Order(key, n)[k]]]
         /\ \A a, b \in 1 .. n : a <= b => key[Order(key, n)[a]] <= key[Order(key, n)[b]]
<1> DEFINE f == [k \in 1 .. n |-> CHOOSE i \in 1 .. n : Opening!Rank(key, i) = k]
           g == [i \in 1 .. n |-> Opening!Rank(key, i)]
<1>1. g \in [1 .. n -> 1 .. n] /\ \A i, j \in 1 .. n : g[i] = g[j] => i = j
  <2>1. \A i \in 1 .. n : Opening!Rank(key, i) \in 1 .. n
    BY RankBounds
  <2>2. ASSUME NEW i \in 1 .. n, NEW j \in 1 .. n, Opening!Rank(key, i) = Opening!Rank(key, j)
        PROVE  i = j
    <3>1. Opening!Rank(key, i) <= Opening!Rank(key, j)
      BY <2>1, <2>2
    <3>2. QED
      BY <2>2, <3>1, RankGrows
  <2>3. QED
    BY <2>1, <2>2
<1>2. g \in Injection(1 .. n, 1 .. n)
  BY <1>1 DEF Injection, IsInjective
<1>3. IsFiniteSet(1 .. n)
  BY CountsAreFinite
<1>4. g \in Surjection(1 .. n, 1 .. n)
  BY <1>2, <1>3, FS_Injection
<1>5. \A k \in 1 .. n : \E i \in 1 .. n : Opening!Rank(key, i) = k
  BY <1>4 DEF Surjection
<1>6. \A k \in 1 .. n : f[k] \in 1 .. n /\ Opening!Rank(key, f[k]) = k
  BY <1>5
<1>7. \A i \in 1 .. n : g[i] \in 1 .. n /\ f[g[i]] = i
  BY <1>1, <1>6
<1>8. Shuffles(f, n)
  <2>1. f \in [1 .. n -> 1 .. n]
    BY <1>6
  <2>2. \A a, b \in 1 .. n : f[a] = f[b] => a = b
    BY <1>6
  <2>3. \A i \in 1 .. n : \E k \in 1 .. n : f[k] = i
    BY <1>7
  <2> HIDE DEF f
  <2>4. QED
    BY <2>1, <2>2, <2>3 DEF Shuffles
<1>9. Opening!Sorted(key, seq) = [k \in 1 .. n |-> seq[f[k]]]
  BY DEF Opening!Sorted
<1>0. Order(key, n) = f
  BY DEF Order
<1> HIDE DEF f
<1>10. ASSUME NEW a \in 1 .. n, NEW b \in 1 .. n, a <= b PROVE key[f[a]] <= key[f[b]]
  <2>1. f[a] \in 1 .. n /\ f[b] \in 1 .. n /\ Opening!Rank(key, f[a]) <= Opening!Rank(key, f[b])
    BY <1>6, <1>10
  <2>2. QED
    BY <2>1, RankGrows
<1>11. QED
  BY <1>0, <1>8, <1>9, <1>10

-----------------------------------------------------------------------------
(* A body is accepted if and only if it is coherent, and what is stored    *)
(* says for every date what the body says.                                 *)

LEMMA TimesAreTimes ==
  ASSUME Opening!HoursAssumption, NEW raw \in Seq(Opening!Times)
  PROVE  /\ Len(raw) \in Nat /\ DOMAIN raw = 1 .. Len(raw)
         /\ \A i \in 1 .. Len(raw) :
              /\ raw[i] \in Opening!Times /\ raw[i].start \in Int /\ raw[i].end \in Int
              /\ raw[i].start \in 0 .. DayEnd /\ raw[i].end \in 0 .. DayEnd
<1>1. DayEnd \in Int
  BY DEF Opening!HoursAssumption
<1>2. \A t \in Opening!Times : /\ t.start \in Int /\ t.end \in Int
                               /\ t.start \in 0 .. DayEnd /\ t.end \in 0 .. DayEnd
  BY <1>1 DEF Opening!Times
<1>3. QED
  BY <1>2

LEMMA StartSorted ==
  ASSUME Opening!HoursAssumption, NEW raw \in Seq(Opening!Times)
  PROVE  \E f : /\ Shuffles(f, Len(raw)) /\ Opening!ByStart(raw) =
                     [k \in 1 .. Len(raw) |-> raw[f[k]]]
                /\ \A a, b \in 1 .. Len(raw) : a <= b => raw[f[a]].start <= raw[f[b]].start
<1> DEFINE n == Len(raw)
           key == [i \in DOMAIN raw |-> raw[i].start]
           f == Order(key, n)
<1>1. n \in Nat /\ DOMAIN raw = 1 .. n
  BY TimesAreTimes
<1>2. key \in [1 .. n -> Int] /\ \A i \in 1 .. n : key[i] = raw[i].start
  BY TimesAreTimes
<1>3. Opening!ByStart(raw) = Opening!Sorted(key, raw)
  BY DEF Opening!ByStart
<1> HIDE DEF key
<1>4. /\ Shuffles(f, n) /\ Opening!Sorted(key, raw) = [k \in 1 .. n |-> raw[f[k]]]
      /\ \A a, b \in 1 .. n : a <= b => key[f[a]] <= key[f[b]]
  BY <1>1, <1>2, SortedShuffles
<1> HIDE DEF f
<1>5. \A k \in 1 .. n : f[k] \in 1 .. n
  BY <1>4 DEF Shuffles
<1>6. ASSUME NEW a \in 1 .. n, NEW b \in 1 .. n, a <= b
      PROVE  raw[f[a]].start <= raw[f[b]].start
  <2>1. key[f[a]] = raw[f[a]].start /\ key[f[b]] = raw[f[b]].start
    BY <1>2, <1>5
  <2>2. key[f[a]] <= key[f[b]]
    BY <1>4, <1>6
  <2>3. QED
    BY <2>1, <2>2, Zenon
<1>7. QED
  BY <1>3, <1>4, <1>6

LEMMA AcceptedCoherent ==
  ASSUME Opening!HoursAssumption, NEW raw \in Seq(Opening!Times), Opening!AcceptIntervals(raw)
  PROVE  Opening!Coherent(raw)
<1> DEFINE n == Len(raw)
           s == Opening!ByStart(raw)
<1>1. /\ n \in Nat /\ DOMAIN raw = 1 .. n
      /\ \A i \in 1 .. n : raw[i].start \in Int /\ raw[i].end \in Int
  BY TimesAreTimes
<1>2. PICK f : /\ Shuffles(f, n) /\ s = [k \in 1 .. n |-> raw[f[k]]]
               /\ \A a, b \in 1 .. n : a <= b => raw[f[a]].start <= raw[f[b]].start
  BY StartSorted
<1>3. /\ \A i \in 1 .. n : raw[i].start < raw[i].end
      /\ \A i \in 1 .. n : i > 1 => s[i].start >= s[i - 1].end
  BY <1>1 DEF Opening!AcceptIntervals
<1> HIDE DEF s, n
<1>4. ASSUME NEW a \in 1 .. n, NEW b \in 1 .. n, a < b
      PROVE  raw[f[a]].end <= raw[f[b]].start
  <2>1. a + 1 \in 1 .. n /\ a + 1 <= b /\ a + 1 > 1 /\ (a + 1) - 1 = a
    BY <1>1, <1>4
  <2>2. s[a + 1].start >= s[a].end
    BY <1>3, <2>1
  <2>3. s[a + 1] = raw[f[a + 1]] /\ s[a] = raw[f[a]]
    BY <1>2, <2>1
  <2>4. raw[f[a + 1]].start <= raw[f[b]].start
    BY <1>2, <2>1
  <2>5. f[a] \in 1 .. n /\ f[b] \in 1 .. n /\ f[a + 1] \in 1 .. n
    BY <1>2, <2>1 DEF Shuffles
  <2>6. QED
    BY <1>1, <2>2, <2>3, <2>4, <2>5
<1>5. ASSUME NEW i \in 1 .. n, NEW j \in 1 .. n, i # j
      PROVE  raw[i].end <= raw[j].start \/ raw[j].end <= raw[i].start
  <2>1. PICK a \in 1 .. n : f[a] = i
    BY <1>2 DEF Shuffles
  <2>2. PICK b \in 1 .. n : f[b] = j
    BY <1>2 DEF Shuffles
  <2>3. a < b \/ b < a
    BY <1>1, <1>5, <2>1, <2>2
  <2>4. QED
    BY <1>4, <2>1, <2>2, <2>3
<1>6. \A i \in 1 .. n : Opening!Minutes(raw[i]) # {}
  <2> TAKE i \in 1 .. n
  <2>1. raw[i].start \in Opening!Minutes(raw[i])
    BY <1>1, <1>3 DEF Opening!Minutes
  <2>2. QED
    BY <2>1
<1>7. \A i, j \in 1 .. n : i # j => Opening!Minutes(raw[i]) \cap Opening!Minutes(raw[j]) = {}
  BY <1>1, <1>5 DEF Opening!Minutes
<1>8. QED
  BY <1>1, <1>6, <1>7 DEF Opening!Coherent

LEMMA CoherentAccepted ==
  ASSUME Opening!HoursAssumption, NEW raw \in Seq(Opening!Times), Opening!Coherent(raw),
         Len(raw) <= MaxIntervals
  PROVE  Opening!AcceptIntervals(raw)
<1> DEFINE n == Len(raw)
           s == Opening!ByStart(raw)
<1>1. /\ n \in Nat /\ DOMAIN raw = 1 .. n
      /\ \A i \in 1 .. n : raw[i].start \in Int /\ raw[i].end \in Int
  BY TimesAreTimes
<1>2. PICK f : /\ Shuffles(f, n) /\ s = [k \in 1 .. n |-> raw[f[k]]]
               /\ \A a, b \in 1 .. n : a <= b => raw[f[a]].start <= raw[f[b]].start
  BY StartSorted
<1> HIDE DEF s
<1>3. \A i \in 1 .. n : raw[i].start < raw[i].end
  <2> TAKE i \in 1 .. n
  <2>1. PICK m : m \in Opening!Minutes(raw[i])
    BY <1>1 DEF Opening!Coherent
  <2>2. QED
    BY <1>1, <2>1 DEF Opening!Minutes
<1>4. ASSUME NEW i \in 1 .. n, i > 1 PROVE s[i].start >= s[i - 1].end
  <2>1. i - 1 \in 1 .. n /\ i - 1 <= i /\ i - 1 # i
    BY <1>1, <1>4
  <2> DEFINE a == f[i - 1]
             b == f[i]
  <2>2. a \in 1 .. n /\ b \in 1 .. n /\ a # b /\ raw[a].start <= raw[b].start
    BY <1>2, <2>1 DEF Shuffles
  <2>3. s[i] = raw[b] /\ s[i - 1] = raw[a]
    BY <1>2, <2>1
  <2> HIDE DEF a, b
  <2>4. raw[b].start \notin Opening!Minutes(raw[a]) \cap Opening!Minutes(raw[b])
    BY <1>1, <2>2 DEF Opening!Coherent
  <2>5. raw[a].end <= raw[b].start
    BY <1>1, <1>3, <2>2, <2>4 DEF Opening!Minutes
  <2>6. QED
    BY <1>1, <2>2, <2>3, <2>5
<1>5. QED
  BY <1>1, <1>3, <1>4 DEF Opening!AcceptIntervals, s

(* Sorting changes nothing of what a list of intervals opens.              *)
LEMMA SortedSame ==
  ASSUME Opening!HoursAssumption, NEW raw \in Seq(Opening!Times)
  PROVE  /\ Opening!ByStart(raw) \in Seq(Opening!Times)
         /\ Opening!OpenIn(Opening!ByStart(raw)) = Opening!OpenIn(raw)
         /\ Opening!Coherent(raw) => Opening!Coherent(Opening!ByStart(raw))
<1> DEFINE n == Len(raw)
<1>1. n \in Nat /\ DOMAIN raw = 1 .. n /\ \A i \in 1 .. n : raw[i] \in Opening!Times
  OBVIOUS
<1>2. PICK f : Shuffles(f, n) /\ Opening!ByStart(raw) = [k \in 1 .. n |-> raw[f[k]]]
  BY StartSorted
<1> HIDE DEF n
<1>3. \A k \in 1 .. n : f[k] \in 1 .. n
  BY <1>2 DEF Shuffles
<1>4. Opening!ByStart(raw) \in Seq(Opening!Times)
  BY <1>1, <1>2, <1>3
<1>5. Opening!OpenIn(Opening!ByStart(raw)) = Opening!OpenIn(raw)
  <2>1. \A m : m \in Opening!OpenIn(Opening!ByStart(raw)) <=>
          \E k \in 1 .. n : m \in Opening!Minutes(raw[f[k]])
    BY <1>2 DEF Opening!OpenIn
  <2>2. \A m : m \in Opening!OpenIn(raw) <=> \E i \in 1 .. n : m \in Opening!Minutes(raw[i])
    BY <1>1 DEF Opening!OpenIn
  <2>3. \A m : m \in Opening!OpenIn(Opening!ByStart(raw)) <=> m \in Opening!OpenIn(raw)
    BY <1>3, <1>2, <2>1, <2>2 DEF Shuffles
  <2>4. QED
    BY <2>3
<1>6. ASSUME Opening!Coherent(raw) PROVE Opening!Coherent(Opening!ByStart(raw))
  <2>1. /\ \A i \in 1 .. n : Opening!Minutes(raw[i]) # {}
        /\ \A i, j \in 1 .. n : i # j => Opening!Minutes(raw[i]) \cap Opening!Minutes(raw[j]) = {}
    BY <1>1, <1>6 DEF Opening!Coherent
  <2>2. \A i, j \in 1 .. n : f[i] = f[j] => i = j
    BY <1>2 DEF Shuffles
  <2>3. /\ \A i \in 1 .. n : Opening!Minutes(raw[f[i]]) # {}
        /\ \A i, j \in 1 .. n :
             i # j => Opening!Minutes(raw[f[i]]) \cap Opening!Minutes(raw[f[j]]) = {}
    BY <1>3, <2>1, <2>2
  <2>4. /\ DOMAIN Opening!ByStart(raw) = 1 .. n
        /\ \A i \in 1 .. n : Opening!ByStart(raw)[i] = raw[f[i]]
    BY <1>2
  <2>5. QED
    BY ZenonT(40), <2>3, <2>4 DEF Opening!Coherent
<1>7. QED
  BY <1>4, <1>5, <1>6

-----------------------------------------------------------------------------
LEMMA BodyParts ==
  ASSUME Opening!HoursAssumption, NEW p \in Payloads
  PROVE  /\ \A d \in DOMAIN p.weekly : p.weekly[d] \in Seq(Opening!Times)
         /\ Len(p.exceptions) \in Nat /\ DOMAIN p.exceptions = 1 .. Len(p.exceptions)
         /\ \A i \in DOMAIN p.exceptions :
              /\ p.exceptions[i] \in [date : Dates, closed : BOOLEAN,
                                      intervals : Seq(Opening!Times)]
              /\ p.exceptions[i].date \in Dates /\ p.exceptions[i].date \in Int
              /\ p.exceptions[i].closed \in BOOLEAN
              /\ p.exceptions[i].intervals \in Seq(Opening!Times)
<1> DEFINE R == [date : Dates, closed : BOOLEAN, intervals : Seq(Opening!Times)]
<1>1. /\ \A d \in DOMAIN p.weekly : p.weekly[d] \in Seq(Opening!Times)
      /\ p.exceptions \in Seq(R) /\ Dates \subseteq Int
  BY DEF Opening!HoursAssumption
<1>2. \A e \in R : /\ e.date \in Dates /\ e.date \in Int
                   /\ e.closed \in BOOLEAN /\ e.intervals \in Seq(Opening!Times)
  BY <1>1
<1> HIDE DEF R
<1>3. /\ Len(p.exceptions) \in Nat /\ DOMAIN p.exceptions = 1 .. Len(p.exceptions)
      /\ \A i \in DOMAIN p.exceptions : p.exceptions[i] \in R
  BY <1>1
<1>4. QED
  BY <1>1, <1>2, <1>3 DEF R

(* The exceptions that are stored: those of the body, in another order.    *)
LEMMA StoredExceptions ==
  ASSUME Opening!HoursAssumption, NEW p \in Payloads
  PROVE  \E f : /\ Shuffles(f, Len(p.exceptions))
                /\ DOMAIN Opening!Canonical(p).exceptions = 1 .. Len(p.exceptions)
                /\ \A k \in 1 .. Len(p.exceptions) :
                     /\ Opening!Canonical(p).exceptions[k].date = p.exceptions[f[k]].date
                     /\ Opening!Canonical(p).exceptions[k].intervals =
                          Opening!ByStart(p.exceptions[f[k]].intervals)
<1> DEFINE n == Len(p.exceptions)
           E == [i \in DOMAIN p.exceptions |->
                   [p.exceptions[i] EXCEPT !.intervals = Opening!ByStart(@)]]
           key == [i \in DOMAIN E |-> E[i].date]
           f == Order(key, n)
<1>1. n \in Nat /\ DOMAIN p.exceptions = 1 .. n
  BY BodyParts
<1>2. \A i \in 1 .. n : /\ E[i].date = p.exceptions[i].date
                        /\ E[i].intervals = Opening!ByStart(p.exceptions[i].intervals)
  <2> TAKE i \in 1 .. n
  <2>1. p.exceptions[i] \in [date : Dates, closed : BOOLEAN, intervals : Seq(Opening!Times)]
    BY <1>1, BodyParts
  <2>2. E[i] = [p.exceptions[i] EXCEPT !.intervals = Opening!ByStart(p.exceptions[i].intervals)]
    BY <1>1
  <2>3. QED
    BY <2>1, <2>2
<1>3. DOMAIN E = 1 .. n
  BY <1>1
<1>4. key \in [1 .. n -> Int]
  BY <1>1, <1>2, <1>3, BodyParts
<1>5. Opening!Canonical(p).exceptions = Opening!Sorted(key, E)
  BY DEF Opening!Canonical, Opening!ByDate
<1> HIDE DEF E, key, n
<1>6. Shuffles(f, n) /\ Opening!Sorted(key, E) = [k \in 1 .. n |-> E[f[k]]]
  BY <1>1, <1>3, <1>4, SortedShuffles
<1> HIDE DEF f
<1>7. \A k \in 1 .. n : f[k] \in 1 .. n
  BY <1>6 DEF Shuffles
<1>8. \A k \in 1 .. n : Opening!Canonical(p).exceptions[k] = E[f[k]]
  BY <1>5, <1>6
<1>9. \A k \in 1 .. n : /\ Opening!Canonical(p).exceptions[k].date = p.exceptions[f[k]].date
                        /\ Opening!Canonical(p).exceptions[k].intervals =
                             Opening!ByStart(p.exceptions[f[k]].intervals)
  BY <1>2, <1>7, <1>8
<1>10. DOMAIN Opening!Canonical(p).exceptions = 1 .. n
  BY <1>5, <1>6
<1>11. QED
  BY <1>6, <1>9, <1>10 DEF n

LEMMA StoredIntervals ==
  ASSUME Opening!HoursAssumption, NEW p \in Payloads, Opening!Accept(p), NEW date
  PROVE  /\ Opening!IntervalsForDate(Opening!Canonical(p), date) \in Seq(Opening!Times)
         /\ Opening!OpenIn(Opening!IntervalsForDate(Opening!Canonical(p), date)) =
              Opening!Said(p, date)
         /\ Opening!Coherent(Opening!IntervalsForDate(Opening!Canonical(p), date))
<1> DEFINE n == Len(p.exceptions)
           h == Opening!Canonical(p)
           on == {k \in DOMAIN h.exceptions : h.exceptions[k].date = date}
<1>1. n \in Nat /\ DOMAIN p.exceptions = 1 .. n
  BY BodyParts
<1>2. PICK f : /\ Shuffles(f, n) /\ DOMAIN h.exceptions = 1 .. n
               /\ \A k \in 1 .. n :
                    /\ h.exceptions[k].date = p.exceptions[f[k]].date
                    /\ h.exceptions[k].intervals = Opening!ByStart(p.exceptions[f[k]].intervals)
  BY StoredExceptions
<1>3. \A k \in 1 .. n : f[k] \in 1 .. n
  BY <1>2 DEF Shuffles
<1>4. h.weekly = [d \in {d \in DOMAIN p.weekly : p.weekly[d] # <<>>} |->
                  Opening!ByStart(p.weekly[d])]
  BY DEF Opening!Canonical
<1>5. Opening!IntervalsForDate(h, date) =
        IF on # {} THEN h.exceptions[CHOOSE k \in on : TRUE].intervals
        ELSE IF Weekday[date] \in DOMAIN h.weekly THEN h.weekly[Weekday[date]] ELSE <<>>
  BY DEF Opening!IntervalsForDate
<1>6. Opening!Dated(p, date) = {i \in 1 .. n : p.exceptions[i].date = date}
  BY <1>1 DEF Opening!Dated
<1> HIDE DEF h, n
<1>7. CASE Opening!Dated(p, date) # {}
  <2>1. PICK i \in 1 .. n : p.exceptions[i].date = date
    BY <1>6, <1>7
  <2>2. Opening!Dated(p, date) = {i}
    BY <1>1, <1>6, <2>1 DEF Opening!Accept, Opening!AcceptExceptions
  <2>3. PICK k \in 1 .. n : f[k] = i
    BY <1>2 DEF Shuffles
  <2>4. k \in on
    BY <1>2, <2>1, <2>3
  <2>5. \A x \in on : h.exceptions[x].intervals = Opening!ByStart(p.exceptions[i].intervals)
    BY <1>2, <1>3, <1>6, <2>2
  <2>6. Opening!IntervalsForDate(h, date) = Opening!ByStart(p.exceptions[i].intervals)
    BY <1>5, <2>4, <2>5
  <2>7. Opening!Said(p, date) = Opening!OpenIn(p.exceptions[i].intervals)
    BY <1>7, <2>2 DEF Opening!Said
  <2>8. /\ p.exceptions[i].intervals \in Seq(Opening!Times)
        /\ Opening!AcceptIntervals(p.exceptions[i].intervals)
    BY <1>1, BodyParts DEF Opening!Accept, Opening!AcceptExceptions
  <2>9. QED
    BY <2>6, <2>7, <2>8, SortedSame, AcceptedCoherent DEF h
<1>8. CASE Opening!Dated(p, date) = {}
  <2>1. on = {}
    BY <1>2, <1>3, <1>6, <1>8
  <2>2. Opening!Said(p, date) = IF Weekday[date] \in DOMAIN p.weekly
                        THEN Opening!OpenIn(p.weekly[Weekday[date]]) ELSE {}
    BY <1>8 DEF Opening!Said
  <2> DEFINE d == Weekday[date]
  <2>3. CASE d \in DOMAIN p.weekly /\ p.weekly[d] # <<>>
    <3>1. Opening!IntervalsForDate(h, date) = Opening!ByStart(p.weekly[d])
      BY <1>4, <1>5, <2>1, <2>3
    <3>2. p.weekly[d] \in Seq(Opening!Times) /\ Opening!AcceptIntervals(p.weekly[d])
      BY <2>3, BodyParts DEF Opening!Accept
    <3>3. QED
      BY <2>2, <2>3, <3>1, <3>2, SortedSame, AcceptedCoherent DEF h
  <2>4. CASE ~(d \in DOMAIN p.weekly /\ p.weekly[d] # <<>>)
    <3>1. Opening!IntervalsForDate(h, date) = <<>>
      BY <1>4, <1>5, <2>1, <2>4
    <3>2. Opening!OpenIn(<<>>) = {} /\ Opening!Coherent(<<>>) /\ <<>> \in Seq(Opening!Times)
      BY DEF Opening!OpenIn, Opening!Coherent
    <3>3. Opening!Said(p, date) = {}
      BY <2>2, <2>4, <3>2
    <3>4. QED
      BY <3>1, <3>2, <3>3 DEF h
  <2>5. QED
    BY <2>3, <2>4
<1>9. QED
  BY <1>7, <1>8

LEMMA RefusedIncoherent ==
  ASSUME Opening!HoursAssumption, NEW p \in Payloads, ~Opening!Accept(p)
  PROVE  \/ \E d \in DOMAIN p.weekly : ~Opening!Coherent(p.weekly[d])
              \/ Len(p.weekly[d]) > MaxIntervals
         \/ Len(p.exceptions) > MaxExceptions
         \/ \E date \in Dates : Cardinality(Opening!Dated(p, date)) > 1
         \/ \E i \in DOMAIN p.exceptions :
              LET e == p.exceptions[i]
              IN \/ ~Opening!Coherent(e.intervals) \/ Len(e.intervals) > MaxIntervals
                 \/ e.closed <=> Opening!OpenIn(e.intervals) # {}
         \/ \A d \in DOMAIN p.weekly : p.weekly[d] = <<>>
<1> SUFFICES ASSUME
      /\ \A d \in DOMAIN p.weekly : Opening!Coherent(p.weekly[d])
           /\ ~(Len(p.weekly[d]) > MaxIntervals)
      /\ ~(Len(p.exceptions) > MaxExceptions)
      /\ \A date \in Dates : ~(Cardinality(Opening!Dated(p, date)) > 1)
      /\ \A i \in DOMAIN p.exceptions :
           /\ Opening!Coherent(p.exceptions[i].intervals)
           /\ ~(Len(p.exceptions[i].intervals) > MaxIntervals)
           /\ ~(p.exceptions[i].closed <=> Opening!OpenIn(p.exceptions[i].intervals) # {})
      /\ \E d \in DOMAIN p.weekly : p.weekly[d] # <<>>
      PROVE  Opening!Accept(p)
  OBVIOUS
<1>1. MaxIntervals \in Nat /\ MaxExceptions \in Nat
  BY DEF Opening!HoursAssumption
<1>2. ASSUME NEW raw \in Seq(Opening!Times), Opening!Coherent(raw), ~(Len(raw) > MaxIntervals)
      PROVE  Opening!AcceptIntervals(raw) /\ (raw = <<>> <=> Opening!OpenIn(raw) = {})
  <2>1. Opening!AcceptIntervals(raw)
    BY <1>1, <1>2, CoherentAccepted
  <2>2. ASSUME Opening!OpenIn(raw) = {} PROVE raw = <<>>
    <3>1. \A i \in DOMAIN raw : Opening!Minutes(raw[i]) = {}
      BY <2>2 DEF Opening!OpenIn
    <3>2. \A i \in DOMAIN raw : Opening!Minutes(raw[i]) # {}
      BY <1>2 DEF Opening!Coherent
    <3>3. Len(raw) = 0
      BY <3>1, <3>2
    <3>4. QED
      BY <3>3
  <2>3. Opening!OpenIn(<<>>) = {}
    BY DEF Opening!OpenIn
  <2>4. QED
    BY <2>1, <2>2, <2>3
<1>3. \A d \in DOMAIN p.weekly : Opening!AcceptIntervals(p.weekly[d])
  BY <1>2, BodyParts
<1>4. ASSUME NEW i \in DOMAIN p.exceptions, NEW j \in DOMAIN p.exceptions, i # j
      PROVE  p.exceptions[i].date # p.exceptions[j].date
  <2> SUFFICES ASSUME p.exceptions[i].date = p.exceptions[j].date PROVE FALSE
    OBVIOUS
  <2> DEFINE date == p.exceptions[i].date
             D == Opening!Dated(p, date)
  <2>1. date \in Dates
    BY BodyParts
  <2>2. D \in SUBSET (1 .. Len(p.exceptions)) /\ i \in D /\ j \in D
    BY BodyParts DEF Opening!Dated
  <2> HIDE DEF D
  <2>3. IsFiniteSet(D)
    <3>1. Len(p.exceptions) \in Nat
      BY BodyParts
    <3>2. IsFiniteSet(1 .. Len(p.exceptions))
      BY <3>1, CountsAreFinite
    <3>3. QED
      BY <2>2, <3>2, FS_Subset
  <2>4. Cardinality(D) \in Nat /\ Cardinality(D) # 0 /\ Cardinality(D) # 1
    BY <1>4, <2>2, <2>3, FS_CardinalityType, FS_EmptySet, FS_Singleton
  <2>5. Cardinality(D) > 1
    BY <2>4
  <2>6. QED
    BY <2>1, <2>5 DEF D
<1>5. \A i \in DOMAIN p.exceptions :
        /\ Opening!AcceptIntervals(p.exceptions[i].intervals)
        /\ p.exceptions[i].closed <=> p.exceptions[i].intervals = <<>>
  BY <1>2, BodyParts
<1>6. Len(p.exceptions) <= MaxExceptions
  BY <1>1, BodyParts
<1>7. Opening!AcceptExceptions(p.exceptions)
  BY <1>4, <1>5, <1>6 DEF Opening!AcceptExceptions
<1>8. QED
  BY <1>3, <1>7 DEF Opening!Accept

LEMMA HoursSay ==
  ASSUME Opening!HoursAssumption, HoursInv
  PROVE  Opening!HoursSayWhatWasAsked
<1>1. ASSUME hours # None, NEW date \in Dates
      PROVE  /\ Opening!OpenIn(Opening!IntervalsForDate(hours, date)) = Opening!Said(saved, date)
             /\ Opening!Coherent(Opening!IntervalsForDate(hours, date))
  <2>1. PICK p \in Payloads : Opening!Accept(p) /\ saved = p /\ hours = Opening!Canonical(p)
    BY <1>1 DEF HoursInv
  <2>2. QED
    BY <2>1, StoredIntervals
<1>2. ASSUME offer.query \in Payloads PROVE ~Opening!Accept(offer.query)
  <2>1. None \notin Payloads /\ Payloads \cap Queries = {}
    BY DEF Opening!HoursAssumption
  <2>2. QED
    BY <1>2, <2>1 DEF HoursInv, Opening!NoOffer
<1>3. QED
  BY <1>1, <1>2, RefusedIncoherent, HoursSizes DEF Opening!HoursSayWhatWasAsked

-----------------------------------------------------------------------------
(* The slots that are offered are the free minutes of the grid.            *)

(* A grid of steps of s from nought.                                       *)
LEMMA OnTheGrid ==
  ASSUME NEW a \in Nat, NEW s \in Nat, s > 0
  PROVE  a % s = 0 <=> \E k \in 0 .. a : a = k * s
<1>1. a = s * (a \div s) + (a % s) /\ a % s \in 0 .. s - 1 /\ a \div s \in Int
  OBVIOUS
<1>2. ASSUME a % s = 0 PROVE \E k \in 0 .. a : a = k * s
  <2> DEFINE k == a \div s
  <2>1. a = k * s /\ k \in Int
    BY <1>1, <1>2
  <2> HIDE DEF k
  <2>2. k >= 0 /\ k <= a
    BY <2>1
  <2>3. QED
    BY <2>1, <2>2
<1>3. ASSUME NEW k \in 0 .. a, a = k * s PROVE a % s = 0
  <2> DEFINE d == a \div s
             m == a % s
  <2>1. m = s * (k - d) /\ m \in 0 .. s - 1 /\ d \in Int /\ k \in Int
    BY <1>1, <1>3
  <2> HIDE DEF d, m
  <2> DEFINE x == k - d
  <2>2. x \in Int /\ m = s * x
    BY <2>1
  <2> HIDE DEF x
  <2>3. ~(x >= 1)
    BY <2>1, <2>2
  <2>4. ~(x <= -1)
    BY <2>1, <2>2
  <2>5. m = 0
    BY <2>1, <2>2, <2>3, <2>4
  <2>6. QED
    BY <2>5 DEF m
<1>4. QED
  BY <1>2, <1>3

(* The minutes at which a slot may begin in an interval.                   *)
LEMMA CandidatesOnGrid ==
  ASSUME NEW n \in Nat, NEW t, t.start \in 0 .. n, t.end \in 0 .. n,
         NEW d \in Int, d > 0, NEW s \in Int, s > 0, NEW m \in Int, n = DayEnd
  PROVE  /\ m \in Opening!Candidates(t, d, s) => m \in 0 .. n /\ m + d <= n
         /\ m \in Opening!Candidates(t, d, s) <=>
              (m .. m + d - 1) \subseteq Opening!Minutes(t) /\ (m - t.start) % s = 0
<1>1. (m .. m + d - 1) \subseteq Opening!Minutes(t) <=> t.start <= m /\ m + d <= t.end
  <2>1. ASSUME (m .. m + d - 1) \subseteq Opening!Minutes(t) PROVE t.start <= m /\ m + d <= t.end
    <3>1. m \in m .. m + d - 1 /\ m + d - 1 \in m .. m + d - 1
      OBVIOUS
    <3>2. m \in Opening!Minutes(t) /\ m + d - 1 \in Opening!Minutes(t)
      BY <2>1, <3>1
    <3>3. QED
      BY <3>2 DEF Opening!Minutes
  <2>2. ASSUME t.start <= m, m + d <= t.end PROVE (m .. m + d - 1) \subseteq Opening!Minutes(t)
    BY <2>2 DEF Opening!Minutes
  <2>3. QED
    BY <2>1, <2>2
<1>2. ASSUME m \in Opening!Candidates(t, d, s)
      PROVE  t.start <= m /\ m + d <= t.end /\ (m - t.start) % s = 0
  <2>1. PICK k \in 0 .. n : m = t.start + k * s
    BY <1>2 DEF Opening!Candidates
  <2>2. m + d <= t.end
    BY <1>2 DEF Opening!Candidates
  <2>3. m - t.start = k * s /\ k \in Nat
    BY <2>1
  <2>4. k * s >= k
    BY <2>3
  <2>5. m - t.start \in Nat /\ k \in 0 .. m - t.start
    BY <2>3, <2>4
  <2>6. (m - t.start) % s = 0
    BY <2>3, <2>5, OnTheGrid
  <2>7. QED
    BY <2>2, <2>5, <2>6
<1>3. ASSUME t.start <= m, m + d <= t.end, (m - t.start) % s = 0
      PROVE  m \in Opening!Candidates(t, d, s)
  <2>1. m - t.start \in Nat /\ m - t.start <= n
    BY <1>3
  <2> DEFINE a == m - t.start
  <2>2. a \in Nat /\ a % s = 0 /\ s \in Nat /\ s > 0
    BY <1>3, <2>1
  <2> HIDE DEF a
  <2>3. \E k \in 0 .. a : a = k * s
    BY <2>2, OnTheGrid
  <2>4. PICK k \in 0 .. m - t.start : m - t.start = k * s
    BY <2>3 DEF a
  <2>5. k \in 0 .. n /\ m = t.start + k * s
    BY <2>1, <2>4
  <2>6. QED
    BY <1>3, <2>5 DEF Opening!Candidates
<1>4. QED
  BY <1>1, <1>2, <1>3

(* A slot is past, or meets what is booked, in the code as by the minute.  *)
LEMMA FreeByTheMinute ==
  ASSUME Opening!HoursAssumption, NEW q \in Queries, q.duration > 0,
         NEW m \in 0 .. DayEnd, m + q.duration <= DayEnd
  PROVE  LET s == [start |-> m, end |-> m + q.duration]
         IN Opening!Free(q, m) <=> /\ q.now = None \/ s.start >= Opening!Past(q)
                                   /\ \A b \in q.booked : ~Opening!Overlaps(s, b)
<1> DEFINE d == q.duration
           s == [start |-> m, end |-> m + d]
<1>1. /\ DayEnd \in Nat /\ q.date \in Int /\ d \in Int
      /\ \A b \in q.booked : b.start \in Int /\ b.end \in Int /\ b.start < b.end
      /\ q.now # None => q.now.date \in Int /\ q.now.minute \in 0 .. DayEnd
  BY DEF Opening!HoursAssumption
<1>2. ASSUME NEW b \in q.booked
      PROVE  (\A n \in m .. m + d - 1 : n \notin Opening!Minutes(b)) <=> ~Opening!Overlaps(s, b)
  <2>1. Opening!Overlaps(s, b) <=> m < b.end /\ b.start < m + d
    BY DEF Opening!Overlaps
  <2>2. ASSUME Opening!Overlaps(s, b) PROVE \E n \in m .. m + d - 1 : n \in Opening!Minutes(b)
    <3>1. CASE b.start <= m
      BY <1>1, <2>1, <2>2, <3>1 DEF Opening!Minutes
    <3>2. CASE b.start > m
      <4>1. b.start \in m .. m + d - 1 /\ b.start \in Opening!Minutes(b)
        BY <1>1, <2>1, <2>2, <3>2 DEF Opening!Minutes
      <4>2. QED
        BY <4>1
    <3>3. QED
      BY <1>1, <3>1, <3>2
  <2>3. ASSUME NEW n \in m .. m + d - 1, n \in Opening!Minutes(b) PROVE Opening!Overlaps(s, b)
    BY <1>1, <2>1, <2>3 DEF Opening!Minutes
  <2>4. QED
    BY <2>2, <2>3
<1>3. ASSUME q.now # None
      PROVE  m >= Opening!Past(q) <=> q.date > q.now.date
               \/ (q.date = q.now.date /\ m >= q.now.minute)
  <2> DEFINE k == q.date - q.now.date
             e == q.now.minute
  <2>1. k \in Int /\ e \in 0 .. DayEnd /\ Opening!Past(q) = e - k * DayEnd
    BY <1>1, <1>3 DEF Opening!Past
  <2>2. /\ q.date > q.now.date <=> k >= 1
        /\ q.date = q.now.date <=> k = 0
    BY <1>1, <1>3
  <2>3. m \in Int /\ m >= 0 /\ m < DayEnd
    BY <1>1
  <2> HIDE DEF k, e
  <2>4. CASE k >= 1
    <3>1. k * DayEnd >= DayEnd
      BY <1>1, <2>1, <2>4
    <3>2. QED
      BY <1>1, <2>1, <2>2, <2>3, <2>4, <3>1 DEF e
  <2>5. CASE k = 0
    BY <1>1, <2>1, <2>2, <2>3, <2>5 DEF e
  <2>6. CASE k <= -1
    <3>1. k * DayEnd <= -DayEnd
      BY <1>1, <2>1, <2>6
    <3>2. QED
      BY <1>1, <2>1, <2>2, <2>3, <2>6, <3>1 DEF e
  <2>7. QED
    BY <2>1, <2>4, <2>5, <2>6
<1>4. Opening!Free(q, m) <=> /\ \A b \in q.booked : \A n \in m .. m + d - 1 :
                                  n \notin Opening!Minutes(b)
                             /\ q.now # None => q.date > q.now.date
                                        \/ (q.date = q.now.date /\ m >= q.now.minute)
  BY DEF Opening!Free
<1>5. s.start = m
  OBVIOUS
<1> HIDE DEF d, s
<1>6. QED
  BY <1>2, <1>3, <1>4, <1>5 DEF d, s

LEMMA FreeSlotsFree ==
  ASSUME Opening!HoursAssumption, NEW p \in Payloads, Opening!Accept(p), NEW q \in Queries
  PROVE  LET h == Opening!Canonical(p)
             slot(m) == [start |-> m, end |-> m + q.duration]
             free == {m \in 0 .. DayEnd :
                        /\ q.duration > 0 /\ q.step > 0 /\ Opening!Free(q, m)
                        /\ Opening!OnGrid(q, Opening!IntervalsForDate(h, q.date), m)}
         IN /\ Opening!FreeSlots(h, q) = {slot(m) : m \in free}
            /\ \A m \in 0 .. DayEnd : slot(m) \in Opening!FreeSlots(h, q) <=> m \in free
<1> DEFINE h == Opening!Canonical(p)
           d == q.duration
           s == q.step
           I == Opening!IntervalsForDate(h, q.date)
           slot(m) == [start |-> m, end |-> m + d]
           free == {m \in 0 .. DayEnd : /\ d > 0 /\ s > 0 /\ Opening!Free(q, m)
                    /\ Opening!OnGrid(q, I, m)}
           C == UNION {Opening!Candidates(I[i], d, s) : i \in DOMAIN I}
           fits(x) == /\ q.now = None \/ x.start >= Opening!Past(q)
                      /\ \A b \in q.booked : ~Opening!Overlaps(x, b)
<1>1. DayEnd \in Nat /\ d \in Int /\ s \in Int
  BY DEF Opening!HoursAssumption
<1>2. CASE ~(d > 0 /\ s > 0)
  <2>1. d <= 0 \/ s <= 0
    BY <1>1, <1>2
  <2>2. Opening!FreeSlots(h, q) = {}
    BY <2>1 DEF Opening!FreeSlots
  <2>3. free = {}
    BY <1>2
  <2>4. QED
    BY <2>2, <2>3
<1>3. CASE d > 0 /\ s > 0
  <2>1. I \in Seq(Opening!Times)
    BY StoredIntervals
  <2>2. \A x : x \in Opening!FreeSlots(h, q) <=> fits(x) /\ \E m \in C : x = slot(m)
    <3>1. ~(d <= 0 \/ s <= 0)
      BY <1>1, <1>3
    <3>2. Opening!FreeSlots(h, q) = {x \in {slot(m) : m \in C} : fits(x)}
      BY <3>1 DEF Opening!FreeSlots
    <3> HIDE DEF fits, C
    <3>3. QED
      BY <3>2
  <2>3. \A m : Opening!OnGrid(q, I, m) <=>
          \E i \in DOMAIN I : /\ (m .. m + d - 1) \subseteq Opening!Minutes(I[i])
                              /\ (m - I[i].start) % s = 0
    BY DEF Opening!OnGrid
  <2>4. \A m : fits(slot(m)) <=> /\ q.now = None \/ m >= Opening!Past(q)
                                 /\ \A b \in q.booked : ~Opening!Overlaps(slot(m), b)
    OBVIOUS
  <2>5. ASSUME NEW m \in 0 .. DayEnd, m + d <= DayEnd
        PROVE  Opening!Free(q, m) <=> fits(slot(m))
    BY <1>3, <2>4, <2>5, FreeByTheMinute
  <2> HIDE DEF h, I, d, s, fits
  <2>6. \A i \in DOMAIN I : I[i].start \in 0 .. DayEnd /\ I[i].end \in 0 .. DayEnd
    BY <2>1, TimesAreTimes
  <2>7. ASSUME NEW m \in Int, NEW i \in DOMAIN I
        PROVE  /\ m \in Opening!Candidates(I[i], d, s) => m \in 0 .. DayEnd /\ m + d <= DayEnd
               /\ m \in Opening!Candidates(I[i], d, s) <=>
                    (m .. m + d - 1) \subseteq Opening!Minutes(I[i]) /\ (m - I[i].start) % s = 0
    BY <1>1, <1>3, <2>6, CandidatesOnGrid
  <2>8. \A m \in C : m \in Int
    BY <1>1, <2>6 DEF Opening!Candidates
  <2>9. ASSUME NEW m \in Int
        PROVE  /\ m \in C => m \in 0 .. DayEnd /\ m + d <= DayEnd
               /\ m \in C <=> Opening!OnGrid(q, I, m)
    BY <2>3, <2>7
  <2> HIDE DEF C
  <2>10. \A m \in 0 .. DayEnd : m \in free <=> m \in C /\ fits(slot(m))
    BY <1>3, <2>5, <2>9
  <2>11. \A m \in C : m \in 0 .. DayEnd
    BY <2>8, <2>9
  <2>12. \A m, k : slot(m) = slot(k) => m = k
    OBVIOUS
  <2> HIDE DEF slot
  <2>13. Opening!FreeSlots(h, q) = {slot(m) : m \in free}
    <3>1. \A x : x \in Opening!FreeSlots(h, q) <=> \E m \in free : x = slot(m)
      BY <2>2, <2>10, <2>11
    <3>2. \A x : x \in {slot(m) : m \in free} <=> \E m \in free : x = slot(m)
      OBVIOUS
    <3> HIDE DEF free
    <3>3. QED
      BY <3>1, <3>2
  <2>14. \A m \in 0 .. DayEnd : slot(m) \in Opening!FreeSlots(h, q) <=> m \in free
    BY <2>2, <2>10, <2>12
  <2>15. QED
    BY <2>13, <2>14 DEF slot, I, h, d, s
<1>4. QED
  BY <1>2, <1>3

LEMMA SlotsFree ==
  ASSUME Opening!HoursAssumption, HoursInv
  PROVE  Opening!SlotsAreFree
<1> SUFFICES ASSUME hours # None, offer.query \in Queries PROVE Opening!SlotsAreFree
  BY DEF Opening!SlotsAreFree
<1> DEFINE q == offer.query
           slot(m) == [start |-> m, end |-> m + q.duration]
<1>1. PICK p \in Payloads : Opening!Accept(p) /\ hours = Opening!Canonical(p)
  BY DEF HoursInv
<1>2. offer.slots = Opening!FreeSlots(hours, q)
  <2>1. None \notin Queries /\ Payloads \cap Queries = {}
    BY DEF Opening!HoursAssumption
  <2>2. QED
    BY <2>1 DEF HoursInv, Opening!NoOffer
<1>3. \A m \in 0 .. DayEnd : Opening!IsOffered(hours, slot(m), q) <=>
        slot(m) \in Opening!FreeSlots(hours, q)
  <2>1. q.duration \in Int
    BY DEF Opening!HoursAssumption
  <2> HIDE DEF q
  <2>2. \A m \in 0 .. DayEnd : slot(m).end - slot(m).start = q.duration
    BY <2>1
  <2>3. QED
    BY <2>2 DEF Opening!IsOffered
<1>4. q \in Queries
  OBVIOUS
<1> HIDE DEF q
<1>5. LET free == {m \in 0 .. DayEnd :
                     /\ q.duration > 0 /\ q.step > 0 /\ Opening!Free(q, m)
                     /\ Opening!OnGrid(q, Opening!IntervalsForDate(hours, q.date), m)}
      IN /\ Opening!FreeSlots(hours, q) = {slot(m) : m \in free}
         /\ \A m \in 0 .. DayEnd : slot(m) \in Opening!FreeSlots(hours, q) <=> m \in free
  BY <1>1, <1>4, FreeSlotsFree
<1>6. QED
  BY <1>2, <1>3, <1>5 DEF Opening!SlotsAreFree, q
=============================================================================
