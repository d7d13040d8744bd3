------------------------------ MODULE BackOffice ------------------------------
(***************************************************************************)
(* The five parts of a salon's back office: its staff (SalonStaff), its    *)
(* customers, its pictures, its opening hours and its catalogue, each at a *)
(* desk of its own.                                                        *)
(*                                                                         *)
(* No statement of one of them reads what another writes, so that a        *)
(* behaviour follows one of them, its desk, and what it reaches is the     *)
(* sum, not the product, of what they reach.  A constant has the name it   *)
(* has in the module of its desk, unless two desks use one name.           *)
(***************************************************************************)
EXTENDS SalonStaff

CONSTANTS
  Customers, FullNames, CardPhones, Genders, Notes, Card0,     \* customers
  CardsPage,
  Pictured, MaxPhotos, MaxUploads,                             \* pictures
  DayEnd, MaxIntervals, MaxExceptions, Dates, Weekday,         \* hours
  Payloads, Queries,
  Listed, Services, Salon0, Service0, Names, Blank, Cities,    \* catalogue
  Hours, Prices, Durations, PriceMax, DurationMax, SearchPage

VARIABLES
  desk,
  customers, campaigns, customerTrail, customerTxn,
  logo, photos, bucket, issued, mediaTrail, mediaTxn,
  hours, saved, offer,
  salons, services, catalogueTrail, catalogueTxn

customerVars  == <<customers, campaigns, customerTrail, customerTxn>>
mediaVars     == <<logo, photos, bucket, issued, mediaTrail, mediaTxn>>
hoursVars     == <<hours, saved, offer>>
catalogueVars == <<salons, services, catalogueTrail, catalogueTxn>>
officeVars    == <<desk, customerVars, mediaVars, hoursVars, catalogueVars, vars>>

Cards == INSTANCE SalonCustomers WITH
  Phones <- CardPhones, PageSize <- CardsPage, trail <- customerTrail, txn <- customerTxn

Media == INSTANCE SalonMedia WITH
  Services <- Pictured, trail <- mediaTrail, txn <- mediaTxn

Opening == INSTANCE OpeningHours

Catalogue == INSTANCE SalonCatalogue WITH
  Salons <- Listed, PageSize <- SearchPage, trail <- catalogueTrail, txn <- catalogueTxn

(* What the proofs ask of the constants of the desks.                      *)
ASSUME OfficeAssumption ==
  /\ Cards!CardsAssumption /\ Media!MediaAssumption
  /\ Opening!HoursAssumption /\ Catalogue!CatalogueAssumption

-----------------------------------------------------------------------------
OfficeInit ==
  /\ desk \in {"customers", "media", "hours", "catalogue", "staff"}
  /\ Cards!Init /\ Media!Init /\ Opening!Init /\ Catalogue!Init /\ Init

Rest(others) == UNCHANGED <<desk, others>>

OfficeNext ==
  \/ /\ desk = "customers" /\ Cards!Next
     /\ Rest(<<mediaVars, hoursVars, catalogueVars, vars>>)
  \/ /\ desk = "media" /\ Media!Next
     /\ Rest(<<customerVars, hoursVars, catalogueVars, vars>>)
  \/ /\ desk = "hours" /\ Opening!Next
     /\ Rest(<<customerVars, mediaVars, catalogueVars, vars>>)
  \/ /\ desk = "catalogue" /\ Catalogue!Next
     /\ Rest(<<customerVars, mediaVars, hoursVars, vars>>)
  \/ /\ desk = "staff" /\ Next
     /\ Rest(<<customerVars, mediaVars, hoursVars, catalogueVars>>)

OfficeSpec == OfficeInit /\ [][OfficeNext]_officeVars

-----------------------------------------------------------------------------
(* What every desk holds is of its type: the services and the salons hold  *)
(* only what the forms accept, the galleries keys of their kind.           *)
TypesOK ==
  /\ desk = "customers" => Cards!TypeOK
  /\ desk = "media" => Media!TypeOK
  /\ desk = "catalogue" => Catalogue!TypeOK
  /\ desk = "staff" => TypeOK

(* A telephone that is set stays on a card, but for edits whose check ran  *)
(* on another telephone than they overwrite, and a request is refused for  *)
(* a telephone that a card carries only; no two cards of a salon carry     *)
(* one.  No page of cards or of campaigns holds more than the total that   *)
(* goes with it, unless an edit changed the gender or the name it is       *)
(* filtered on (SalonCustomers).                                           *)
CardsHold == Cards!CardsHold

(* What is referred to exists in the bucket, or a request that has not     *)
(* committed let it go (SalonMedia).                                       *)
ReferencedObjectsExist == desk = "media" => Media!ReferencedObjectsExist

(* A gallery exceeds its maximum only by additions that cross (SalonMedia).*)
PhotosWithinLimit == Media!PhotosWithinLimit

(* The hours that are stored are those that were asked, and what may be    *)
(* booked is open, free and not past (OpeningHours).                       *)
HoursAreHonoured ==
  desk = "hours" => Opening!HoursSayWhatWasAsked /\ Opening!SlotsAreFree

(* An edit of a salon or of a service takes effect, touches nothing that   *)
(* it was not asked to, and the log names what it changes (SalonCatalogue).*)
EditsTakeEffect == Catalogue!EditsTakeEffect /\ Catalogue!ChangesAreLogged
=============================================================================
