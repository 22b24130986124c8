---------------------------- MODULE EditBooking ----------------------------
(***************************************************************************)
(* The form that edits a booking.  It loads the booking, fills itself in   *)
(* and follows its inputs with the two effects of CreateBooking; but it    *)
(* has no flag for a price that is being fetched, and whether it can be    *)
(* saved is a memoized signal that reads the form's status, which is not a *)
(* signal.                                                                 *)
(***************************************************************************)
EXTENDS ClientScreen

CONSTANTS
  Windows, NoWindow, Seats, NoSeat, NoInvoice,
  NoBooking,  \* the booking is not loaded yet
  MaxCalls    \* bound: prices that one form asks for

BookingStatus == {"RESERVED", "PAYMENT_PENDING", "COMPLETED", "EXPIRED", "REJECTED"}
Booking == [seat : Seats, window : Windows, status : BookingStatus]
\* cheaper: the new price is below what was paid.
Invoice == [seat : Seats, window : Windows, available : BOOLEAN, cheaper : BOOLEAN]
GetCall == [call : {"getOne"}]
MapCall == [call : {"seatsAvailability"}, id : Nat]
PriceCall == [call : {"checkAvailability"}, id : Nat, seat : Seats, window : Windows]
UpdateCall == [call : {"update"}, seat : Seats, window : Windows]

Form ==
  [page : {"edit"},
   original : Booking \cup {NoBooking},
   loading : BOOLEAN,
   window : Windows \cup {NoWindow},
   selectedSeat : Seats \cup {NoSeat},
   unavailableSeats : SUBSET Seats,
   loadingSeats : BOOLEAN,
   availability : Invoice \cup {NoInvoice},
   saving : BOOLEAN,
   priceReqId : Nat,
   maps : Nat,           \* seat maps asked for
   canSave : BOOLEAN,    \* what the computed signal last returned
   tracks : BOOLEAN]     \* whether it read any signal then, and so can change again

TypeOK ==
  /\ screen \in Form
  /\ calls \subseteq GetCall \cup MapCall \cup PriceCall \cup UpdateCall

NewForm ==
  [page |-> "edit", original |-> NoBooking, loading |-> TRUE,
   window |-> NoWindow, selectedSeat |-> NoSeat, unavailableSeats |-> {},
   loadingSeats |-> FALSE, availability |-> NoInvoice, saving |-> FALSE,
   priceReqId |-> 0, maps |-> 0, canSave |-> FALSE, tracks |-> TRUE]

\* The constructor asks for the booking.
FirstCalls == {[call |-> "getOne"]}

Valid(s) == s.window # NoWindow

DowngradeBlocked(s) == s.original.status = "COMPLETED" /\ s.availability.cheaper

Savable(s) ==
  /\ Valid(s) /\ s.selectedSeat # NoSeat
  /\ s.availability # NoInvoice /\ s.availability.available
  /\ ~DowngradeBlocked(s)

\* Mutant of Signals: the invoice is a plain field.
SignalsWithoutInvoice(s) == <<s.selectedSeat, s.original>>

\* The signals canSave reads, when it reads any.
Signals(s) == <<s.selectedSeat, s.availability, s.original>>

\* canSave is computed again when a signal it read has changed.  If the form is not
\* valid it returns before it reads one, and then never runs again.
Render(s) ==
  IF ~screen.tracks \/ Signals(s) = Signals(screen)
  THEN s
  ELSE [s EXCEPT
          !.tracks = Valid(s),
          !.canSave = Savable(s)]

-----------------------------------------------------------------------------
(* The effects: what each assigns, and what it asks the server.             *)

AskMap(s) ==
  IF Valid(s)
  THEN [s EXCEPT !.loadingSeats = TRUE, !.maps = @ + 1]
  ELSE [s EXCEPT !.unavailableSeats = {}]

MapCalls(s) ==
  IF Valid(s) THEN {[call |-> "seatsAvailability", id |-> s.maps + 1]} ELSE {}

AskPrice(s) ==
  IF Valid(s) /\ s.selectedSeat # NoSeat
  THEN [s EXCEPT !.priceReqId = @ + 1]
  ELSE [s EXCEPT !.availability = NoInvoice]

PriceCalls(s) ==
  IF Valid(s) /\ s.selectedSeat # NoSeat
  THEN {[call |-> "checkAvailability", id |-> s.priceReqId + 1,
         seat |-> s.selectedSeat, window |-> s.window]}
  ELSE {}

-----------------------------------------------------------------------------
(* Loading.                                                                *)

Editable(b) == b.status \in {"RESERVED", "PAYMENT_PENDING", "COMPLETED"}

Prefill(b) == [screen EXCEPT !.original = b, !.loading = FALSE,
                             !.window = b.window, !.selectedSeat = b.seat]

\* A booking that cannot be edited is kept too, and the page is left.
BookingLoaded(c, b) ==
  IF Editable(b)
  THEN LET s == Prefill(b) IN
       Receive(c, Render(AskMap(AskPrice(s))), MapCalls(s) \cup PriceCalls(s))
  ELSE ReceiveAndLeave(c, Render([screen EXCEPT !.original = b]), "my-bookings")

BookingFailed(c) == ReceiveAndLeave(c, [screen EXCEPT !.loading = FALSE], "my-bookings")

-----------------------------------------------------------------------------
(* The user.  The form is there once the booking is.                       *)

ChangeWindow(w) ==
  LET s == [screen EXCEPT !.window = w] IN
  /\ screen.original # NoBooking
  /\ screen.priceReqId < MaxCalls /\ screen.maps < MaxCalls
  /\ Handle(Render(AskMap(AskPrice(s))), MapCalls(s) \cup PriceCalls(s))

Pickable(seat) ==
  /\ Valid(screen) /\ ~screen.loadingSeats
  /\ seat \notin screen.unavailableSeats

OnSeatPicked(seat) ==
  LET s == [screen EXCEPT !.selectedSeat = seat, !.availability = NoInvoice] IN
  /\ Pickable(seat)
  /\ IF seat = screen.selectedSeat
     THEN Handle(Render(s), {})
     ELSE /\ screen.priceReqId < MaxCalls
          /\ Handle(Render(AskPrice(s)), PriceCalls(s))

\* save takes the inputs as they are now.
Save ==
  /\ screen.canSave /\ ~screen.saving
  /\ Valid(screen) /\ screen.selectedSeat # NoSeat
  /\ Handle([screen EXCEPT !.saving = TRUE],
            {[call |-> "update", seat |-> screen.selectedSeat, window |-> screen.window]})

-----------------------------------------------------------------------------
(* The answers.                                                            *)

\* The booking's own seat is taken out of what the server calls taken; a selected
\* seat that is taken stays selected.
SeatsAnswered(c, taken) ==
  Receive(c, [screen EXCEPT !.unavailableSeats = taken \ {screen.original.seat},
                            !.loadingSeats = FALSE], {})

\* Mutant of SeatsFailed: it forgets to stop the spinner.
SeatsFailedSilently(c) == Receive(c, [screen EXCEPT !.unavailableSeats = {}], {})

SeatsFailed(c) ==
  Receive(c, [screen EXCEPT !.unavailableSeats = {}, !.loadingSeats = FALSE], {})

\* Mutant of PriceAnswered: the number of the request is not compared.
PriceAnsweredAnyway(c, available, cheaper) ==
  Receive(c, Render([screen EXCEPT
    !.availability = [seat |-> c.seat, window |-> c.window,
                      available |-> available, cheaper |-> cheaper]]), {})

PriceAnswered(c, available, cheaper) ==
  Receive(c,
    IF c.id # screen.priceReqId
    THEN screen
    ELSE Render([screen EXCEPT
                   !.availability = [seat |-> c.seat, window |-> c.window,
                                     available |-> available, cheaper |-> cheaper]]), {})

PriceFailed(c) ==
  Receive(c,
    IF c.id # screen.priceReqId
    THEN screen
    ELSE Render([screen EXCEPT !.availability = NoInvoice]), {})

Updated(c) == ReceiveAndLeave(c, [screen EXCEPT !.saving = FALSE], "my-bookings")

UpdateFailed(c) == Receive(c, [screen EXCEPT !.saving = FALSE], {})

AnswerBooking ==
  \E c \in InFlight("getOne") :
    BookingFailed(c) \/ \E b \in Booking : BookingLoaded(c, b)

AnswerMap ==
  \E c \in InFlight("seatsAvailability") :
    SeatsFailed(c) \/ \E taken \in SUBSET Seats : SeatsAnswered(c, taken)

AnswerPrice ==
  \E c \in InFlight("checkAvailability") :
    \/ PriceFailed(c)
    \/ \E available, cheaper \in BOOLEAN : PriceAnswered(c, available, cheaper)

AnswerUpdate == \E c \in InFlight("update") : Updated(c) \/ UpdateFailed(c)

Next ==
  \/ \E w \in Windows \cup {NoWindow} : ChangeWindow(w)
  \/ \E seat \in Seats : OnSeatPicked(seat)
  \/ Save
  \/ AnswerBooking
  \/ AnswerMap
  \/ AnswerPrice
  \/ AnswerUpdate

-----------------------------------------------------------------------------
\* Once the price that was last asked for has come or failed, the difference under
\* review is the one of the seat and the window the form shows, and Save sends them.
SettledInvoiceIsCurrent ==
  /\ screen.availability # NoInvoice /\ Valid(screen)
  /\ \A c \in InFlight("checkAvailability") : c.id # screen.priceReqId
  => /\ screen.availability.seat = screen.selectedSeat
     /\ screen.availability.window = screen.window

\* The memoized canSave never lets an incomplete form, one without a price, a taken
\* seat or a blocked downgrade be saved; and as long as it still tracks its signals
\* it is what the form says now.
CanSaveIsCurrent ==
  /\ screen.canSave => Savable(screen)
  /\ screen.tracks /\ screen.original # NoBooking => (screen.canSave <=> Savable(screen))

\* What stops a spinner is still to come.
SpinnersHaveCalls ==
  /\ screen.loading => InFlight("getOne") # {} \/ nav # NoPage
  /\ screen.loadingSeats => InFlight("seatsAvailability") # {}
  /\ screen.saving => InFlight("update") # {}
=============================================================================
