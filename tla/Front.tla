-------------------------------- MODULE Front --------------------------------
(***************************************************************************)
(* What customers do on their own screens, apart from ordering: write to   *)
(* support (Desk), call the courier (Calls), prove an address (Codes),     *)
(* fill a basket (Baskets), divide a bill (SplitBill), review a dish       *)
(* (Reviews), like and comment (Feed).  The seven share no variable: a     *)
(* behaviour follows one of them, the focus.                               *)
(***************************************************************************)
EXTENDS Desk, Calls, Codes, Baskets, SplitBill, Reviews, Feed

VARIABLE focus

frontVars == <<deskVars, callsVars, codesVars, basketsVars, billVars, reviewsVars,
               feedVars>>

FrontFoci == {"desk", "calls", "codes", "baskets", "bill", "reviews", "feed"}

FrontInit ==
  DeskInit /\ CallsInit /\ CodesInit /\ BasketsInit /\ BillInit /\ ReviewsInit /\ FeedInit

DeskStep ==
  /\ focus = "desk" /\ DeskNext
  /\ UNCHANGED <<callsVars, codesVars, basketsVars, billVars, reviewsVars, feedVars>>
CallsStep ==
  /\ focus = "calls" /\ CallsNext
  /\ UNCHANGED <<deskVars, codesVars, basketsVars, billVars, reviewsVars, feedVars>>
CodesStep ==
  /\ focus = "codes" /\ CodesNext
  /\ UNCHANGED <<deskVars, callsVars, basketsVars, billVars, reviewsVars, feedVars>>
BasketsStep ==
  /\ focus = "baskets" /\ BasketsNext
  /\ UNCHANGED <<deskVars, callsVars, codesVars, billVars, reviewsVars, feedVars>>
BillStep ==
  /\ focus = "bill" /\ BillNext
  /\ UNCHANGED <<deskVars, callsVars, codesVars, basketsVars, reviewsVars, feedVars>>
ReviewsStep ==
  /\ focus = "reviews" /\ ReviewsNext
  /\ UNCHANGED <<deskVars, callsVars, codesVars, basketsVars, billVars, feedVars>>
FeedStep ==
  /\ focus = "feed" /\ FeedNext
  /\ UNCHANGED <<deskVars, callsVars, codesVars, basketsVars, billVars, reviewsVars>>

FrontNext ==
  \/ DeskStep \/ CallsStep \/ CodesStep \/ BasketsStep \/ BillStep \/ ReviewsStep
  \/ FeedStep

(* Every variable of the seven has its type.                               *)
FrontTypeOK ==
  /\ DeskTypeOK /\ CallsTypeOK /\ CodesTypeOK
  /\ BasketsTypeOK /\ BillTypeOK /\ ReviewsTypeOK /\ FeedTypeOK

(* What a customer says is kept as he said it: no message is buried under  *)
(* a closed ticket, one call rings at once and ends once, one code opens   *)
(* and the tries are counted, a basket holds what was put in it.           *)
SaidIsKept == DeskHolds /\ CallsHold /\ CodesHold /\ BasketsHold
=============================================================================
