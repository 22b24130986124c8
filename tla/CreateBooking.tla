--------------------------- MODULE CreateBooking ---------------------------
(***************************************************************************)
(* The form that books a seat.  Two effects follow its inputs: one asks    *)
(* for the seat map, the other for a price.  The seat map's answers are    *)
(* applied as they come; a price is applied only if no later price was     *)
(* asked for.                                                              *)
(***************************************************************************)
EXTENDS ClientScreen

CONSTANTS
  Windows,    \* what the dates, the access type and the slot together say
  NoWindow,   \* a date is missing, so the form is not valid
  Seats,
  NoSeat,
  NoInvoice,
  MaxCalls    \* bound: prices, and seat maps, that one form asks for

Invoice == [seat : Seats, window : Windows, available : BOOLEAN]
\* The calls of bookings.service.ts this form makes.  The number of a seat map
\* call only tells it from the others; the code has none.  keep: refreshPrice made
\* the call, whose failure leaves the invoice as it is.
MapCall == [call : {"seatsAvailability"}, id : Nat, window : Windows]
PriceCall == [call : {"checkAvailability"}, id : Nat, seat : Seats,
              window : Windows, keep : BOOLEAN]
CreateCall == [call : {"create"}, seat : Seats, window : Windows]

Form ==
  [page : {"book"},
   window : Windows \cup {NoWindow},
   selectedSeat : Seats \cup {NoSeat},
   unavailableSeats : SUBSET Seats,
   loadingSeats : BOOLEAN,
   availability : Invoice \cup {NoInvoice},
   checking : BOOLEAN,
   submitting : BOOLEAN,
   priceReqId : Nat,
   maps : Nat]           \* seat maps asked for

TypeOK ==
  /\ screen \in Form
  /\ calls \subseteq MapCall \cup PriceCall \cup CreateCall

NewForm ==
  [page |-> "book", window |-> NoWindow, selectedSeat |-> NoSeat,
   unavailableSeats |-> {}, loadingSeats |-> FALSE, availability |-> NoInvoice,
   checking |-> FALSE, submitting |-> FALSE, priceReqId |-> 0, maps |-> 0]

SeatSelectionReady(s) == s.window # NoWindow

CanSubmit(s) == s.selectedSeat # NoSeat /\ SeatSelectionReady(s)

CanConfirm(s) ==
  /\ CanSubmit(s)
  /\ ~s.checking
  /\ s.availability # NoInvoice
  /\ s.availability.available

-----------------------------------------------------------------------------
(* The effects: what each assigns, and what it asks the server.             *)

AskMap(s) ==
  IF SeatSelectionReady(s)
  THEN [s EXCEPT !.loadingSeats = TRUE, !.maps = @ + 1]
  ELSE [s EXCEPT !.unavailableSeats = {}]

\* Mutant of MapCalls: the seat map is asked for without a valid form.
MapCallsAlways(s) == {[call |-> "seatsAvailability", id |-> s.maps + 1, window |-> s.window]}

MapCalls(s) ==
  {[call |-> "seatsAvailability", id |-> s.maps + 1, window |-> w] :
     w \in {s.window} \ {NoWindow}}

AskPrice(s) ==
  IF CanSubmit(s)
  THEN [s EXCEPT !.priceReqId = @ + 1, !.checking = TRUE]
  ELSE [s EXCEPT !.availability = NoInvoice]

PriceCalls(s, keep) ==
  IF CanSubmit(s)
  THEN {[call |-> "checkAvailability", id |-> s.priceReqId + 1,
         seat |-> s.selectedSeat, window |-> s.window, keep |-> keep]}
  ELSE {}

-----------------------------------------------------------------------------
(* The user.                                                               *)

\* Dates, access type and slot: both effects run.
ChangeWindow(w) ==
  LET s == [screen EXCEPT !.window = w] IN
  /\ screen.maps < MaxCalls /\ screen.priceReqId < MaxCalls
  /\ Handle(AskMap(AskPrice(s)), MapCalls(s) \cup PriceCalls(s, FALSE))

\* The grid is there once a window is chosen, and it emits a free seat only while
\* no seat map is being loaded.
Pickable(seat) ==
  /\ SeatSelectionReady(screen)
  /\ ~screen.loadingSeats
  /\ seat \notin screen.unavailableSeats

\* The price effect depends on the selected seat: picking it again is no change.
OnSeatPicked(seat) ==
  LET s == [screen EXCEPT !.selectedSeat = seat, !.availability = NoInvoice] IN
  /\ Pickable(seat)
  /\ IF seat = screen.selectedSeat
     THEN Handle(s, {})
     ELSE /\ screen.priceReqId < MaxCalls
          /\ Handle(AskPrice(s), PriceCalls(s, FALSE))

RefreshPrice ==
  /\ CanSubmit(screen) /\ ~screen.checking
  /\ screen.priceReqId < MaxCalls
  /\ Handle(AskPrice(screen), PriceCalls(screen, TRUE))

Submit ==
  /\ CanConfirm(screen) /\ ~screen.submitting
  /\ Handle([screen EXCEPT !.submitting = TRUE],
            {[call |-> "create", seat |-> screen.selectedSeat, window |-> screen.window]})

-----------------------------------------------------------------------------
(* The answers.                                                            *)

\* Mutant of SeatsAnswered: the selected seat is left alone.
SeatsAnsweredOnly(c, taken) ==
  Receive(c, [screen EXCEPT !.unavailableSeats = taken, !.loadingSeats = FALSE], {})

\* A seat the map shows as taken is deselected; the price effect sees no seat.
SeatsAnswered(c, taken) ==
  LET s == [screen EXCEPT !.unavailableSeats = taken, !.loadingSeats = FALSE] IN
  Receive(c, IF screen.selectedSeat \in taken
             THEN AskPrice([s EXCEPT !.selectedSeat = NoSeat])
             ELSE s, {})

SeatsFailed(c) ==
  Receive(c, [screen EXCEPT !.loadingSeats = FALSE, !.unavailableSeats = {}], {})

\* Mutant of PriceAnswered: the number of the request is not compared.
PriceAnsweredAnyway(c, available) ==
  Receive(c, [screen EXCEPT
    !.availability = [seat |-> c.seat, window |-> c.window, available |-> available],
    !.checking = FALSE], {})

PriceAnswered(c, available) ==
  Receive(c,
    IF c.id # screen.priceReqId
    THEN screen
    ELSE [screen EXCEPT
            !.availability = [seat |-> c.seat, window |-> c.window, available |-> available],
            !.checking = FALSE], {})

\* Mutant of PriceFailed: it forgets to stop the spinner.
PriceFailedSilently(c) ==
  Receive(c, IF c.id = screen.priceReqId /\ ~c.keep
             THEN [screen EXCEPT !.availability = NoInvoice]
             ELSE screen, {})

PriceFailed(c) ==
  Receive(c,
    IF c.id # screen.priceReqId
    THEN screen
    ELSE [screen EXCEPT !.availability = IF c.keep THEN @ ELSE NoInvoice,
                        !.checking = FALSE], {})

Created(c) == ReceiveAndLeave(c, [screen EXCEPT !.submitting = FALSE], "my-bookings")

CreateFailed(c) == Receive(c, [screen EXCEPT !.submitting = FALSE], {})

AnswerMap ==
  \E c \in InFlight("seatsAvailability") :
    SeatsFailed(c) \/ \E taken \in SUBSET Seats : SeatsAnswered(c, taken)

AnswerPrice ==
  \E c \in InFlight("checkAvailability") :
    PriceFailed(c) \/ \E available \in BOOLEAN : PriceAnswered(c, available)

AnswerCreate == \E c \in InFlight("create") : Created(c) \/ CreateFailed(c)

Next ==
  \/ \E w \in Windows \cup {NoWindow} : ChangeWindow(w)
  \/ \E seat \in Seats : OnSeatPicked(seat)
  \/ RefreshPrice
  \/ Submit
  \/ AnswerMap
  \/ AnswerPrice
  \/ AnswerCreate

-----------------------------------------------------------------------------
\* "This is what prevents users from confirming a booking without seeing the
\* price": whatever was typed and answered in whatever order, when Confirm can be
\* clicked the invoice on screen is for the seat and the window it would book.
ConfirmsWhatWasPriced ==
  CanConfirm(screen) =>
    /\ screen.availability.seat = screen.selectedSeat
    /\ screen.availability.window = screen.window

\* A seat the map shows as taken is never the selected one, whichever of several
\* seat maps came last.
SelectedSeatNotTaken == screen.selectedSeat \notin screen.unavailableSeats

\* A spinner means that the answer that will stop it is still to come: no order of
\* answers, dropped ones included, leaves the form waiting for nothing.
SpinnersHaveCalls ==
  /\ screen.checking => \E c \in InFlight("checkAvailability") : c.id = screen.priceReqId
  /\ screen.loadingSeats => InFlight("seatsAvailability") # {}
  /\ screen.submitting => InFlight("create") # {}
=============================================================================
