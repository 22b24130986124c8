------------------------- MODULE ClientForms_proofs -------------------------
(***************************************************************************)
(* What the pages promise, for every number of seats, windows, bookings,   *)
(* users and requests: one invariant per page, kept by its handlers and by *)
(* the answers to its calls in whatever order, and by the router.          *)
(***************************************************************************)
EXTENDS ClientApp_proofs

-----------------------------------------------------------------------------
(* The booking form.                                                       *)

BookPrices == Book!InFlight("checkAvailability")

\* What the form shows is what it would book.
BookPriced == /\ screen.availability.seat = screen.selectedSeat
              /\ screen.availability.window = screen.window

BookInv ==
  /\ \A c \in BookPrices : c.id <= screen.priceReqId
  /\ screen.checking => \E c \in BookPrices : c.id = screen.priceReqId
  /\ \A c \in BookPrices : c.id = screen.priceReqId /\ Book!CanSubmit(screen) =>
       c.seat = screen.selectedSeat /\ c.window = screen.window
  /\ \/ ~Book!CanSubmit(screen)
     \/ screen.availability = NoInvoice
     \/ BookPriced
     \/ screen.checking /\ \A c \in BookPrices : ~(c.id = screen.priceReqId /\ c.keep)
  /\ screen.selectedSeat \notin screen.unavailableSeats
  /\ screen.loadingSeats => Book!InFlight("seatsAvailability") # {}
  /\ screen.submitting => Book!InFlight("create") # {}

\* What an effect of the form leaves alone.
LEMMA BookAskMapFields ==
  ASSUME NEW s \in Book!Form
  PROVE  LET r == Book!AskMap(s) IN
         /\ r.window = s.window /\ r.selectedSeat = s.selectedSeat
         /\ r.availability = s.availability /\ r.checking = s.checking
         /\ r.priceReqId = s.priceReqId /\ r.submitting = s.submitting
         /\ Book!SeatSelectionReady(s) => r.loadingSeats /\ r.unavailableSeats = s.unavailableSeats
         /\ ~Book!SeatSelectionReady(s) => r.loadingSeats = s.loadingSeats /\ r.unavailableSeats = {}
BY DEF Book!AskMap, Book!Form, Book!SeatSelectionReady

\* With a seat and a window the price effect only adds a request, without them it drops
\* the invoice.
LEMMA BookAskPriceFields ==
  ASSUME NEW s \in Book!Form
  PROVE  LET r == Book!AskPrice(s) IN
         /\ r.window = s.window /\ r.selectedSeat = s.selectedSeat
         /\ r.unavailableSeats = s.unavailableSeats /\ r.loadingSeats = s.loadingSeats
         /\ r.submitting = s.submitting
         /\ Book!CanSubmit(s) => /\ r.availability = s.availability /\ r.checking
                                 /\ r.priceReqId = s.priceReqId + 1
         /\ ~Book!CanSubmit(s) => /\ r.availability = NoInvoice /\ r.checking = s.checking
                                  /\ r.priceReqId = s.priceReqId
BY DEF Book!AskPrice, Book!Form

\* Asking for a price of what the form s says settles everything about prices.
LEMMA BookAsked ==
  ASSUME Book!TypeOK, BookInv, NEW s \in Book!Form, NEW keep \in BOOLEAN,
         s.priceReqId = screen.priceReqId, s.checking = screen.checking,
         keep => s = screen /\ ~screen.checking,
         screen'.window = s.window, screen'.selectedSeat = s.selectedSeat,
         screen'.availability = Book!AskPrice(s).availability,
         screen'.checking = Book!AskPrice(s).checking,
         screen'.priceReqId = Book!AskPrice(s).priceReqId,
         BookPrices' = BookPrices \cup Book!PriceCalls(s, keep)
  PROVE  /\ \A c \in BookPrices' : c.id <= screen'.priceReqId
         /\ screen'.checking => \E c \in BookPrices' : c.id = screen'.priceReqId
         /\ \A c \in BookPrices' : c.id = screen'.priceReqId /\ Book!CanSubmit(screen)' =>
              c.seat = screen'.selectedSeat /\ c.window = screen'.window
         /\ \/ ~Book!CanSubmit(screen)'
            \/ screen'.availability = NoInvoice
            \/ BookPriced'
            \/ screen'.checking /\ \A c \in BookPrices' : ~(c.id = screen'.priceReqId /\ c.keep)
<1>1. (Book!CanSubmit(screen)') = Book!CanSubmit(s)
  BY DEF Book!CanSubmit, Book!SeatSelectionReady
<1>2. screen.priceReqId \in Nat /\ \A c \in BookPrices : c.id \in Nat
  BY DEF Book!TypeOK, Book!Form, BookPrices, Book!InFlight, Book!MapCall, Book!PriceCall,
         Book!CreateCall
<1>3. CASE ~Book!CanSubmit(s)
  <2>1. BookPrices' = BookPrices
    BY <1>3 DEF Book!PriceCalls
  <2>2. /\ screen'.priceReqId = screen.priceReqId /\ screen'.checking = screen.checking
        /\ screen'.availability = NoInvoice
    BY <1>3, BookAskPriceFields
  <2> QED
    BY <1>1, <1>3, <2>1, <2>2 DEF BookInv
<1>4. CASE Book!CanSubmit(s)
  <2> DEFINE new == [call |-> "checkAvailability", id |-> s.priceReqId + 1,
                     seat |-> s.selectedSeat, window |-> s.window, keep |-> keep]
  <2>1. BookPrices' = BookPrices \cup {new}
    BY <1>4 DEF Book!PriceCalls
  <2>2. /\ screen'.priceReqId = screen.priceReqId + 1 /\ screen'.checking
        /\ screen'.availability = s.availability
    BY <1>4, BookAskPriceFields
  <2>3. /\ new.id = screen'.priceReqId /\ new.seat = screen'.selectedSeat
        /\ new.window = screen'.window /\ new.keep = keep
    BY <2>2
  <2> HIDE DEF new
  <2>4. \A c \in BookPrices : c.id <= screen.priceReqId /\ c.id < screen'.priceReqId
    BY <1>2, <2>2 DEF BookInv
  <2>5. \A c \in BookPrices' : c.id <= screen'.priceReqId
    BY <1>2, <2>1, <2>2, <2>3, <2>4
  <2>6. \A c \in BookPrices' : c.id = screen'.priceReqId => c = new
    BY <1>2, <2>1, <2>2, <2>4
  <2>7. \/ screen'.availability = NoInvoice
        \/ BookPriced'
        \/ screen'.checking /\ \A c \in BookPrices' : ~(c.id = screen'.priceReqId /\ c.keep)
    <3>1. CASE keep
      BY <1>4, <2>2, <3>1 DEF BookInv, BookPriced
    <3>2. CASE ~keep
      BY <2>2, <2>3, <2>6, <3>2
    <3> QED
      BY <3>1, <3>2
  <2> QED
    BY <2>1, <2>3, <2>5, <2>6, <2>7
<1> QED
  BY <1>3, <1>4

\* A step that leaves the seat, the window and the price alone, and the calls for a price.
LEMMA BookIdle ==
  ASSUME Book!TypeOK, BookInv, BookPrices' = BookPrices,
         screen'.window = screen.window, screen'.selectedSeat = screen.selectedSeat,
         screen'.availability = screen.availability, screen'.checking = screen.checking,
         screen'.priceReqId = screen.priceReqId,
         screen'.selectedSeat \notin screen'.unavailableSeats,
         screen'.loadingSeats => Book!InFlight("seatsAvailability")' # {},
         screen'.submitting => Book!InFlight("create")' # {}
  PROVE  BookInv'
<1>1. (Book!CanSubmit(screen)') = Book!CanSubmit(screen)
  BY DEF Book!CanSubmit, Book!SeatSelectionReady
<1> QED
  BY <1>1 DEF BookInv, BookPriced

\* Every step of the form and every answer keeps its invariant.
LEMMA BookStep ==
  ASSUME Book!TypeOK, BookInv, Book!Next
  PROVE  BookInv'
<1> USE DEF Book!Handle, Book!Receive
<1>0. screen \in Book!Form
  BY DEF Book!TypeOK
<1>1. ASSUME NEW w \in Windows \cup {NoWindow}, Book!ChangeWindow(w)
      PROVE  BookInv'
  <2> DEFINE s == [screen EXCEPT !.window = w]
             t == Book!AskPrice(s)
  <2>1. /\ s \in Book!Form /\ s.window = w /\ s.selectedSeat = screen.selectedSeat
        /\ s.priceReqId = screen.priceReqId /\ s.checking = screen.checking
        /\ s.unavailableSeats = screen.unavailableSeats /\ s.loadingSeats = screen.loadingSeats
        /\ s.submitting = screen.submitting
    BY <1>0 DEF Book!Form
  <2>2. screen' = Book!AskMap(t) /\ calls' = calls \cup (Book!MapCalls(s) \cup Book!PriceCalls(s, FALSE))
    BY <1>1 DEF Book!ChangeWindow
  <2>3. BookPrices' = BookPrices \cup Book!PriceCalls(s, FALSE)
    BY <2>2 DEF BookPrices, Book!InFlight, Book!MapCalls, Book!PriceCalls
  <2> HIDE DEF s
  <2>4. t \in Book!Form
    BY <2>1, BookAskPrice
  <2> HIDE DEF t
  <2>5. /\ screen'.window = t.window /\ screen'.selectedSeat = t.selectedSeat
        /\ screen'.availability = t.availability /\ screen'.checking = t.checking
        /\ screen'.priceReqId = t.priceReqId /\ screen'.submitting = t.submitting
    BY <2>2, <2>4, BookAskMapFields
  <2>6. /\ t.window = s.window /\ t.selectedSeat = s.selectedSeat
        /\ t.unavailableSeats = s.unavailableSeats /\ t.loadingSeats = s.loadingSeats
        /\ t.submitting = s.submitting
    BY <2>1, BookAskPriceFields DEF t
  <2>7. screen'.selectedSeat \notin screen'.unavailableSeats
    BY <2>1, <2>2, <2>4, <2>5, <2>6, BookAskMapFields DEF BookInv
  <2>8. screen'.loadingSeats => Book!InFlight("seatsAvailability")' # {}
    <3>1. CASE Book!SeatSelectionReady(t)
      <4> DEFINE new == [call |-> "seatsAvailability", id |-> s.maps + 1, window |-> s.window]
      <4>1. new \in Book!MapCalls(s)
        BY <2>6, <3>1, Zenon DEF Book!MapCalls, Book!SeatSelectionReady
      <4>2. new.call = "seatsAvailability"
        OBVIOUS
      <4> HIDE DEF new
      <4> QED
        BY <2>2, <4>1, <4>2 DEF Book!InFlight
    <3>2. CASE ~Book!SeatSelectionReady(t)
      BY <2>1, <2>2, <2>4, <2>6, <3>2, BookAskMapFields DEF BookInv, Book!InFlight
    <3> QED
      BY <3>1, <3>2
  <2>9. screen'.submitting => Book!InFlight("create")' # {}
    BY <2>1, <2>2, <2>5, <2>6 DEF BookInv, Book!InFlight
  <2> QED
    BY <2>1, <2>3, <2>5, <2>6, <2>7, <2>8, <2>9, BookAsked DEF BookInv, t
<1>2. ASSUME NEW seat \in Seats, Book!OnSeatPicked(seat)
      PROVE  BookInv'
  <2> DEFINE s == [screen EXCEPT !.selectedSeat = seat, !.availability = NoInvoice]
  <2>1. /\ s \in Book!Form /\ s.window = screen.window /\ s.selectedSeat = seat
        /\ s.availability = NoInvoice
        /\ s.priceReqId = screen.priceReqId /\ s.checking = screen.checking
        /\ s.unavailableSeats = screen.unavailableSeats /\ s.loadingSeats = screen.loadingSeats
        /\ s.submitting = screen.submitting
    BY <1>0 DEF Book!Form
  <2>2. seat \notin screen.unavailableSeats
    BY <1>2 DEF Book!OnSeatPicked, Book!Pickable
  <2>3. CASE seat = screen.selectedSeat
    <3>1. screen' = s /\ calls' = calls
      BY <1>2, <2>3 DEF Book!OnSeatPicked
    <3>2. BookPrices' = BookPrices
      BY <3>1 DEF BookPrices, Book!InFlight
    <3>3. (Book!CanSubmit(screen)') = Book!CanSubmit(screen)
      BY <2>1, <2>3, <3>1 DEF Book!CanSubmit, Book!SeatSelectionReady
    <3> HIDE DEF s
    <3> QED
      BY <2>1, <2>2, <2>3, <3>1, <3>2, <3>3 DEF BookInv, Book!InFlight
  <2>4. CASE seat # screen.selectedSeat
    <3>1. screen' = Book!AskPrice(s) /\ calls' = calls \cup Book!PriceCalls(s, FALSE)
      BY <1>2, <2>4 DEF Book!OnSeatPicked
    <3>2. BookPrices' = BookPrices \cup Book!PriceCalls(s, FALSE)
      BY <3>1 DEF BookPrices, Book!InFlight, Book!PriceCalls
    <3> HIDE DEF s
    <3>3. /\ screen'.window = s.window /\ screen'.selectedSeat = s.selectedSeat
          /\ screen'.unavailableSeats = s.unavailableSeats /\ screen'.loadingSeats = s.loadingSeats
          /\ screen'.submitting = s.submitting
      BY <2>1, <3>1, BookAskPriceFields
    <3>4. /\ screen'.loadingSeats => Book!InFlight("seatsAvailability")' # {}
          /\ screen'.submitting => Book!InFlight("create")' # {}
      BY <2>1, <3>1, <3>3 DEF BookInv, Book!InFlight
    <3> QED
      BY <2>1, <2>2, <3>1, <3>2, <3>3, <3>4, BookAsked DEF BookInv
  <2> QED
    BY <2>3, <2>4
<1>3. CASE Book!RefreshPrice
  <2>1. screen' = Book!AskPrice(screen) /\ calls' = calls \cup Book!PriceCalls(screen, TRUE)
        /\ ~screen.checking
    BY <1>3 DEF Book!RefreshPrice
  <2>2. BookPrices' = BookPrices \cup Book!PriceCalls(screen, TRUE)
    BY <2>1 DEF BookPrices, Book!InFlight, Book!PriceCalls
  <2>3. /\ screen'.window = screen.window /\ screen'.selectedSeat = screen.selectedSeat
        /\ screen'.unavailableSeats = screen.unavailableSeats
        /\ screen'.loadingSeats = screen.loadingSeats /\ screen'.submitting = screen.submitting
    BY <1>0, <2>1, BookAskPriceFields
  <2>4. /\ screen'.loadingSeats => Book!InFlight("seatsAvailability")' # {}
        /\ screen'.submitting => Book!InFlight("create")' # {}
    BY <2>1, <2>3 DEF BookInv, Book!InFlight
  <2> QED
    BY <1>0, <2>1, <2>2, <2>3, <2>4, BookAsked DEF BookInv
<1>4. CASE Book!Submit
  <2> DEFINE new == [call |-> "create", seat |-> screen.selectedSeat, window |-> screen.window]
  <2>1. screen' = [screen EXCEPT !.submitting = TRUE] /\ calls' = calls \cup {new}
    BY <1>4 DEF Book!Submit
  <2>0. new.call = "create"
    OBVIOUS
  <2> HIDE DEF new
  <2>2. /\ BookPrices' = BookPrices /\ Book!InFlight("create")' # {}
        /\ Book!InFlight("seatsAvailability")' = Book!InFlight("seatsAvailability")
    BY <2>0, <2>1 DEF BookPrices, Book!InFlight
  <2>3. /\ screen'.window = screen.window /\ screen'.selectedSeat = screen.selectedSeat
        /\ screen'.availability = screen.availability /\ screen'.checking = screen.checking
        /\ screen'.priceReqId = screen.priceReqId
        /\ screen'.unavailableSeats = screen.unavailableSeats
        /\ screen'.loadingSeats = screen.loadingSeats
    BY <1>0, <2>1 DEF Book!Form
  <2> QED
    BY <2>2, <2>3, BookIdle DEF BookInv
<1>5. ASSUME NEW c \in Book!InFlight("seatsAvailability"), NEW taken \in SUBSET Seats,
             Book!SeatsAnswered(c, taken) \/ Book!SeatsFailed(c)
      PROVE  BookInv'
  <2>1. calls' = calls \ {c} /\ c.call = "seatsAvailability"
    BY <1>5 DEF Book!SeatsAnswered, Book!SeatsFailed, Book!InFlight
  <2>2. BookPrices' = BookPrices /\ Book!InFlight("create")' = Book!InFlight("create")
    BY <2>1 DEF BookPrices, Book!InFlight
  <2>3. CASE Book!SeatsAnswered(c, taken) /\ screen.selectedSeat \in taken
    <3> DEFINE s == [screen EXCEPT !.unavailableSeats = taken, !.loadingSeats = FALSE,
                                   !.selectedSeat = NoSeat]
    <3>1. screen' = Book!AskPrice(s)
      BY <2>3 DEF Book!SeatsAnswered
    <3>2. /\ s \in Book!Form /\ s.window = screen.window /\ s.selectedSeat = NoSeat
          /\ s.priceReqId = screen.priceReqId /\ s.checking = screen.checking
          /\ s.unavailableSeats = taken /\ s.loadingSeats = FALSE
          /\ s.submitting = screen.submitting
      BY <1>0 DEF Book!Form
    <3> HIDE DEF s
    <3>3. ~Book!CanSubmit(s) /\ NoSeat \notin taken
      BY <3>2, FormAssumption DEF Book!CanSubmit
    <3>4. /\ screen'.window = s.window /\ screen'.selectedSeat = NoSeat
          /\ screen'.unavailableSeats = taken /\ screen'.loadingSeats = FALSE
          /\ screen'.submitting = screen.submitting /\ screen'.checking = screen.checking
          /\ screen'.priceReqId = screen.priceReqId /\ screen'.availability = NoInvoice
      BY <3>1, <3>2, <3>3, BookAskPriceFields
    <3>5. ~Book!CanSubmit(screen)'
      BY <3>4 DEF Book!CanSubmit
    <3> QED
      BY <2>2, <3>3, <3>4, <3>5 DEF BookInv
  <2>4. CASE \/ Book!SeatsAnswered(c, taken) /\ screen.selectedSeat \notin taken
             \/ Book!SeatsFailed(c)
    <3>1. PICK out \in SUBSET Seats :
            /\ screen.selectedSeat \notin out
            /\ screen' = [screen EXCEPT !.unavailableSeats = out, !.loadingSeats = FALSE]
      <4>1. CASE Book!SeatsFailed(c)
        <5>1. screen' = [screen EXCEPT !.unavailableSeats = {}, !.loadingSeats = FALSE]
          BY <1>0, <4>1 DEF Book!SeatsFailed, Book!Form
        <5> QED
          BY <5>1
      <4>2. CASE Book!SeatsAnswered(c, taken) /\ screen.selectedSeat \notin taken
        BY <4>2 DEF Book!SeatsAnswered
      <4> QED
        BY <2>4, <4>1, <4>2
    <3>2. /\ screen'.window = screen.window /\ screen'.selectedSeat = screen.selectedSeat
          /\ screen'.availability = screen.availability /\ screen'.checking = screen.checking
          /\ screen'.priceReqId = screen.priceReqId /\ screen'.unavailableSeats = out
          /\ screen'.loadingSeats = FALSE /\ screen'.submitting = screen.submitting
      BY <1>0, <3>1 DEF Book!Form
    <3> QED
      BY <2>2, <3>1, <3>2, BookIdle DEF BookInv
  <2> QED
    BY <1>5, <2>3, <2>4
<1>6. ASSUME NEW c \in BookPrices, NEW available \in BOOLEAN,
             Book!PriceAnswered(c, available) \/ Book!PriceFailed(c)
      PROVE  BookInv'
  <2>1. calls' = calls \ {c} /\ c.call = "checkAvailability"
    BY <1>6 DEF Book!PriceAnswered, Book!PriceFailed, BookPrices, Book!InFlight
  <2>2. /\ BookPrices' = BookPrices \ {c} /\ Book!InFlight("create")' = Book!InFlight("create")
        /\ Book!InFlight("seatsAvailability")' = Book!InFlight("seatsAvailability")
    BY <2>1 DEF BookPrices, Book!InFlight
  <2>3. CASE c.id # screen.priceReqId
    <3>1. screen' = screen
      BY <1>6, <2>3 DEF Book!PriceAnswered, Book!PriceFailed
    <3>2. (Book!CanSubmit(screen)') = Book!CanSubmit(screen)
      BY <3>1 DEF Book!CanSubmit, Book!SeatSelectionReady
    <3> QED
      BY <2>2, <2>3, <3>1, <3>2 DEF BookInv, BookPriced
  <2>4. CASE c.id = screen.priceReqId
    <3>1. PICK i : /\ screen' = [screen EXCEPT !.availability = i, !.checking = FALSE]
                   /\ \/ i = [seat |-> c.seat, window |-> c.window, available |-> available]
                      \/ i = NoInvoice
                      \/ c.keep /\ i = screen.availability
      BY <1>6, <2>4 DEF Book!PriceAnswered, Book!PriceFailed
    <3>2. /\ screen'.window = screen.window /\ screen'.selectedSeat = screen.selectedSeat
          /\ screen'.availability = i /\ screen'.checking = FALSE
          /\ screen'.priceReqId = screen.priceReqId
          /\ screen'.unavailableSeats = screen.unavailableSeats
          /\ screen'.loadingSeats = screen.loadingSeats /\ screen'.submitting = screen.submitting
      BY <1>0, <3>1 DEF Book!Form
    <3>3. (Book!CanSubmit(screen)') = Book!CanSubmit(screen)
      BY <3>2 DEF Book!CanSubmit, Book!SeatSelectionReady
    <3>4. \/ ~Book!CanSubmit(screen)
          \/ i = NoInvoice
          \/ i.seat = screen.selectedSeat /\ i.window = screen.window
      BY <2>4, <3>1 DEF BookInv, BookPriced
    <3> QED
      BY <2>2, <3>2, <3>3, <3>4 DEF BookInv, BookPriced
  <2> QED
    BY <2>3, <2>4
<1>7. ASSUME NEW c \in Book!InFlight("create"), Book!Created(c) \/ Book!CreateFailed(c)
      PROVE  BookInv'
  <2>1. calls' = calls \ {c} /\ c.call = "create"
        /\ screen' = [screen EXCEPT !.submitting = FALSE]
    BY <1>7 DEF Book!Created, Book!CreateFailed, Book!ReceiveAndLeave, Book!InFlight
  <2>2. /\ BookPrices' = BookPrices
        /\ Book!InFlight("seatsAvailability")' = Book!InFlight("seatsAvailability")
    BY <2>1 DEF BookPrices, Book!InFlight
  <2>3. /\ screen'.window = screen.window /\ screen'.selectedSeat = screen.selectedSeat
        /\ screen'.availability = screen.availability /\ screen'.checking = screen.checking
        /\ screen'.priceReqId = screen.priceReqId
        /\ screen'.unavailableSeats = screen.unavailableSeats
        /\ screen'.loadingSeats = screen.loadingSeats /\ screen'.submitting = FALSE
    BY <1>0, <2>1 DEF Book!Form
  <2> QED
    BY <2>2, <2>3, BookIdle DEF BookInv
<1> QED
  BY <1>1, <1>2, <1>3, <1>4, <1>5, <1>6, <1>7
     DEF Book!Next, Book!AnswerMap, Book!AnswerPrice, Book!AnswerCreate, BookPrices

-----------------------------------------------------------------------------
(* The form of an edit.                                                    *)

EditPrices == Edit!InFlight("checkAvailability")

EditInv ==
  /\ \A c \in EditPrices : c.id <= screen.priceReqId /\ screen.selectedSeat # NoSeat
  /\ \A c \in EditPrices : c.id = screen.priceReqId /\ Edit!Valid(screen) =>
       c.seat = screen.selectedSeat /\ c.window = screen.window
  /\ Edit!SettledInvoiceIsCurrent
  /\ Edit!CanSaveIsCurrent
  /\ screen.canSave => screen.tracks
  /\ screen.tracks /\ ~Edit!Valid(screen) => screen.availability = NoInvoice
  /\ Edit!SpinnersHaveCalls

\* Change detection only computes canSave.
LEMMA EditRenderFields ==
  ASSUME NEW s \in Edit!Form
  PROVE  LET r == Edit!Render(s) IN
         /\ r.window = s.window /\ r.selectedSeat = s.selectedSeat
         /\ r.availability = s.availability /\ r.original = s.original
         /\ r.priceReqId = s.priceReqId /\ r.loading = s.loading
         /\ r.loadingSeats = s.loadingSeats /\ r.saving = s.saving
BY DEF Edit!Render, Edit!Form

\* The seat map effect leaves the invoice and canSave alone.
LEMMA EditAskMapFields ==
  ASSUME NEW s \in Edit!Form
  PROVE  LET r == Edit!AskMap(s) IN
         /\ r.window = s.window /\ r.selectedSeat = s.selectedSeat
         /\ r.availability = s.availability /\ r.original = s.original
         /\ r.priceReqId = s.priceReqId /\ r.loading = s.loading /\ r.saving = s.saving
         /\ r.canSave = s.canSave /\ r.tracks = s.tracks
         /\ ~Edit!Valid(s) => r.loadingSeats = s.loadingSeats
BY DEF Edit!AskMap, Edit!Form

\* The price effect as on the booking form, without a flag.
LEMMA EditAskPriceFields ==
  ASSUME NEW s \in Edit!Form
  PROVE  LET r == Edit!AskPrice(s) IN
         /\ r.window = s.window /\ r.selectedSeat = s.selectedSeat
         /\ r.original = s.original /\ r.loading = s.loading /\ r.saving = s.saving
         /\ r.canSave = s.canSave /\ r.tracks = s.tracks /\ r.loadingSeats = s.loadingSeats
         /\ Edit!Valid(s) /\ s.selectedSeat # NoSeat =>
              r.priceReqId = s.priceReqId + 1 /\ r.availability = s.availability
         /\ ~(Edit!Valid(s) /\ s.selectedSeat # NoSeat) =>
              r.priceReqId = s.priceReqId /\ r.availability = NoInvoice
BY DEF Edit!AskPrice, Edit!Form

\* What canSave says after change detection.  The form becomes valid, or ceases to be,
\* only together with a price that is dropped or was never there.
LEMMA EditRendered ==
  ASSUME Edit!TypeOK, EditInv, NEW s \in Edit!Form, screen' = Edit!Render(s),
         s.canSave = screen.canSave, s.tracks = screen.tracks,
         \/ Edit!Valid(s) = Edit!Valid(screen)
         \/ s.availability = NoInvoice
         \/ ~Edit!Valid(screen) /\ s.availability = screen.availability
  PROVE  /\ Edit!CanSaveIsCurrent'
         /\ screen'.canSave => screen'.tracks
         /\ screen'.tracks /\ ~Edit!Valid(screen') => screen'.availability = NoInvoice
<1>1. /\ Edit!Valid(screen') = Edit!Valid(s) /\ Edit!Savable(screen') = Edit!Savable(s)
      /\ screen'.availability = s.availability /\ screen'.original = s.original
  BY EditRenderFields DEF Edit!Valid, Edit!Savable, Edit!DowngradeBlocked
<1>2. CASE screen.tracks /\ Edit!Signals(s) # Edit!Signals(screen)
  <2>1. Edit!Valid(s) \in BOOLEAN /\ Edit!Savable(s) \in BOOLEAN
    BY DEF Edit!Valid, Edit!Savable
  <2>2. screen' = [s EXCEPT !.tracks = Edit!Valid(s), !.canSave = Edit!Savable(s)]
    BY <1>2 DEF Edit!Render
  <2>3. screen'.tracks = Edit!Valid(s) /\ screen'.canSave = Edit!Savable(s)
    BY <2>1, <2>2 DEF Edit!Form
  <2> QED
    BY <1>1, <2>3 DEF Edit!CanSaveIsCurrent, Edit!Savable
<1>3. CASE ~screen.tracks
  <2>1. screen' = s /\ ~s.canSave /\ ~s.tracks
    BY <1>3 DEF Edit!Render, EditInv
  <2> QED
    BY <2>1 DEF Edit!CanSaveIsCurrent
<1>4. CASE screen.tracks /\ Edit!Signals(s) = Edit!Signals(screen)
  <2>1. screen' = s
    BY <1>4 DEF Edit!Render
  <2>2. /\ s.selectedSeat = screen.selectedSeat /\ s.availability = screen.availability
        /\ s.original = screen.original
    BY <1>4 DEF Edit!Signals
  <2>3. ~Edit!Valid(screen) => screen.availability = NoInvoice
    BY <1>4 DEF EditInv
  <2>4. Edit!Valid(s) = Edit!Valid(screen) \/ s.availability = NoInvoice
    BY <2>2, <2>3
  <2>5. Edit!Savable(s) = Edit!Savable(screen)
    BY <2>2, <2>4 DEF Edit!Savable, Edit!DowngradeBlocked
  <2>6. ~Edit!Valid(s) => s.availability = NoInvoice
    BY <2>2, <2>3, <2>4
  <2> QED
    BY <1>4, <2>1, <2>2, <2>5, <2>6 DEF EditInv, Edit!CanSaveIsCurrent
<1> QED
  BY <1>2, <1>3, <1>4

\* Asking for a price of what s says, in a form that had its seat or was just filled in.
LEMMA EditAsked ==
  ASSUME Edit!TypeOK, EditInv, NEW s \in Edit!Form,
         s.priceReqId = screen.priceReqId,
         screen'.window = s.window, screen'.selectedSeat = s.selectedSeat,
         screen'.availability = Edit!AskPrice(s).availability,
         screen'.priceReqId = Edit!AskPrice(s).priceReqId,
         EditPrices' = EditPrices \cup Edit!PriceCalls(s),
         EditPrices # {} => s.selectedSeat # NoSeat
  PROVE  /\ \A c \in EditPrices' : c.id <= screen'.priceReqId /\ screen'.selectedSeat # NoSeat
         /\ \A c \in EditPrices' : c.id = screen'.priceReqId /\ Edit!Valid(screen') =>
              c.seat = screen'.selectedSeat /\ c.window = screen'.window
         /\ Edit!SettledInvoiceIsCurrent'
<1>1. Edit!Valid(screen') = Edit!Valid(s)
  BY DEF Edit!Valid
<1>2. screen.priceReqId \in Nat /\ \A c \in EditPrices : c.id \in Nat
  BY DEF Edit!TypeOK, Edit!Form, EditPrices, Edit!InFlight, Edit!GetCall, Edit!MapCall,
         Edit!PriceCall, Edit!UpdateCall
<1>3. CASE ~(Edit!Valid(s) /\ s.selectedSeat # NoSeat)
  <2>1. EditPrices' = EditPrices
    BY <1>3 DEF Edit!PriceCalls
  <2>2. screen'.priceReqId = screen.priceReqId /\ screen'.availability = NoInvoice
    BY <1>3, EditAskPriceFields
  <2> QED
    BY <1>1, <1>3, <2>1, <2>2 DEF EditInv, Edit!SettledInvoiceIsCurrent
<1>4. CASE Edit!Valid(s) /\ s.selectedSeat # NoSeat
  <2> DEFINE new == [call |-> "checkAvailability", id |-> s.priceReqId + 1,
                     seat |-> s.selectedSeat, window |-> s.window]
  <2>1. EditPrices' = EditPrices \cup {new}
    BY <1>4 DEF Edit!PriceCalls
  <2>2. screen'.priceReqId = screen.priceReqId + 1
    BY <1>4, EditAskPriceFields
  <2>3. /\ new.id = screen'.priceReqId /\ new.seat = screen'.selectedSeat
        /\ new.window = screen'.window
    BY <2>2
  <2> HIDE DEF new
  <2>4. \A c \in EditPrices : c.id <= screen.priceReqId /\ c.id < screen'.priceReqId
    BY <1>2, <2>2 DEF EditInv
  <2>5. \A c \in EditPrices' : c.id <= screen'.priceReqId
    BY <1>2, <2>1, <2>2, <2>3, <2>4
  <2>6. \A c \in EditPrices' : c.id = screen'.priceReqId => c = new
    BY <1>2, <2>1, <2>2, <2>4
  <2>7. Edit!SettledInvoiceIsCurrent'
    BY <2>1, <2>3 DEF Edit!SettledInvoiceIsCurrent, EditPrices
  <2> QED
    BY <1>4, <2>1, <2>3, <2>5, <2>6, <2>7
<1> QED
  BY <1>3, <1>4

\* A step that asks for no price and leaves all that prices depend on alone.
LEMMA EditIdle ==
  ASSUME Edit!TypeOK, EditInv, EditPrices' = EditPrices,
         screen'.window = screen.window, screen'.selectedSeat = screen.selectedSeat,
         screen'.availability = screen.availability, screen'.original = screen.original,
         screen'.priceReqId = screen.priceReqId,
         screen'.canSave = screen.canSave, screen'.tracks = screen.tracks,
         Edit!SpinnersHaveCalls'
  PROVE  EditInv'
<1>1. Edit!Valid(screen') = Edit!Valid(screen) /\ Edit!Savable(screen') = Edit!Savable(screen)
  BY DEF Edit!Valid, Edit!Savable, Edit!DowngradeBlocked
<1> QED
  BY <1>1 DEF EditInv, EditPrices, Edit!SettledInvoiceIsCurrent, Edit!CanSaveIsCurrent


\* Both effects run: the form follows s, which says what the form says, or the booking.
LEMMA EditFollows ==
  ASSUME Edit!TypeOK, EditInv, NEW s \in Edit!Form,
         screen' = Edit!Render(Edit!AskMap(Edit!AskPrice(s))),
         s.priceReqId = screen.priceReqId, s.availability = screen.availability,
         s.loadingSeats = screen.loadingSeats, s.saving = screen.saving,
         s.canSave = screen.canSave, s.tracks = screen.tracks,
         EditPrices # {} => s.selectedSeat # NoSeat,
         EditPrices' = EditPrices \cup Edit!PriceCalls(s),
         Edit!InFlight("update")' = Edit!InFlight("update"),
         Edit!InFlight("seatsAvailability")' = Edit!InFlight("seatsAvailability") \cup Edit!MapCalls(s),
         s.loading => Edit!InFlight("getOne")' # {} \/ nav' # NoPage
  PROVE  EditInv'
<1> DEFINE p == Edit!AskPrice(s)
           t == Edit!AskMap(p)
<1>1. p \in Edit!Form
  BY EditAskPrice
<1>2. /\ p.window = s.window /\ p.selectedSeat = s.selectedSeat
      /\ p.original = s.original /\ p.loading = s.loading /\ p.saving = s.saving
      /\ p.canSave = s.canSave /\ p.tracks = s.tracks /\ p.loadingSeats = s.loadingSeats
      /\ p.availability = s.availability \/ p.availability = NoInvoice
      /\ ~Edit!Valid(s) => p.availability = NoInvoice
  BY EditAskPriceFields
<1>3. Edit!Valid(p) = Edit!Valid(s)
  BY <1>2 DEF Edit!Valid
<1>4. t \in Edit!Form
  BY <1>1, EditAskMap
<1>5. /\ t.window = p.window /\ t.selectedSeat = p.selectedSeat /\ t.availability = p.availability
      /\ t.original = p.original /\ t.priceReqId = p.priceReqId /\ t.loading = p.loading
      /\ t.saving = p.saving /\ t.canSave = p.canSave /\ t.tracks = p.tracks
      /\ ~Edit!Valid(p) => t.loadingSeats = p.loadingSeats
  BY <1>1, EditAskMapFields
<1>6. Edit!Valid(t) = Edit!Valid(s)
  BY <1>3, <1>5 DEF Edit!Valid
<1> HIDE DEF t
<1>7. /\ screen'.window = t.window /\ screen'.selectedSeat = t.selectedSeat
      /\ screen'.availability = t.availability /\ screen'.original = t.original
      /\ screen'.priceReqId = t.priceReqId /\ screen'.loading = t.loading
      /\ screen'.loadingSeats = t.loadingSeats /\ screen'.saving = t.saving
  BY <1>4, EditRenderFields DEF t
<1>8. Edit!SpinnersHaveCalls'
  <2>1. /\ screen'.loading => Edit!InFlight("getOne")' # {} \/ nav' # NoPage
        /\ screen'.saving => Edit!InFlight("update")' # {}
    BY <1>2, <1>5, <1>7 DEF EditInv, Edit!SpinnersHaveCalls
  <2>2. CASE Edit!Valid(s)
    <3>1. [call |-> "seatsAvailability", id |-> s.maps + 1] \in Edit!MapCalls(s)
      BY <2>2 DEF Edit!MapCalls
    <3> QED
      BY <2>1, <3>1 DEF Edit!SpinnersHaveCalls
  <2>3. CASE ~Edit!Valid(s)
    <3>1. screen'.loadingSeats = screen.loadingSeats
      BY <1>2, <1>3, <1>5, <1>7, <2>3
    <3> QED
      BY <2>1, <3>1 DEF Edit!SpinnersHaveCalls, EditInv
  <2> QED
    BY <2>2, <2>3
<1>9. /\ \A c \in EditPrices' : c.id <= screen'.priceReqId /\ screen'.selectedSeat # NoSeat
      /\ \A c \in EditPrices' : c.id = screen'.priceReqId /\ Edit!Valid(screen') =>
           c.seat = screen'.selectedSeat /\ c.window = screen'.window
      /\ Edit!SettledInvoiceIsCurrent'
  BY <1>2, <1>5, <1>7, EditAsked
<1>10. \/ Edit!Valid(t) = Edit!Valid(screen) \/ t.availability = NoInvoice
       \/ ~Edit!Valid(screen) /\ t.availability = screen.availability
  <2>1. Edit!Valid(s) \in BOOLEAN /\ Edit!Valid(screen) \in BOOLEAN
    BY DEF Edit!Valid
  <2> QED
    BY <1>2, <1>5, <1>6, <2>1
<1>11. /\ Edit!CanSaveIsCurrent'
       /\ screen'.canSave => screen'.tracks
       /\ screen'.tracks /\ ~Edit!Valid(screen') => screen'.availability = NoInvoice
  <2>1. screen' = Edit!Render(t) /\ t.canSave = screen.canSave /\ t.tracks = screen.tracks
    BY <1>2, <1>5 DEF t
  <2> QED
    BY <1>4, <1>10, <2>1, EditRendered
<1> QED
  BY <1>8, <1>9, <1>11 DEF EditInv

\* Every step of the form and every answer keeps its invariant.
LEMMA EditStep ==
  ASSUME Edit!TypeOK, EditInv, Edit!Next
  PROVE  EditInv'
<1> USE DEF Edit!Handle, Edit!Receive
<1>0. screen \in Edit!Form
  BY DEF Edit!TypeOK
<1>1. ASSUME NEW w \in Windows \cup {NoWindow}, Edit!ChangeWindow(w)
      PROVE  EditInv'
  <2> DEFINE s == [screen EXCEPT !.window = w]
  <2>1. /\ s \in Edit!Form /\ s.selectedSeat = screen.selectedSeat
        /\ s.priceReqId = screen.priceReqId /\ s.availability = screen.availability
        /\ s.loadingSeats = screen.loadingSeats
        /\ s.loading = screen.loading /\ s.saving = screen.saving
        /\ s.canSave = screen.canSave /\ s.tracks = screen.tracks
    BY <1>0 DEF Edit!Form
  <2>2. /\ screen' = Edit!Render(Edit!AskMap(Edit!AskPrice(s))) /\ nav' = nav
        /\ calls' = calls \cup (Edit!MapCalls(s) \cup Edit!PriceCalls(s))
    BY <1>1 DEF Edit!ChangeWindow
  <2>3. /\ EditPrices' = EditPrices \cup Edit!PriceCalls(s)
        /\ Edit!InFlight("update")' = Edit!InFlight("update")
        /\ Edit!InFlight("getOne")' = Edit!InFlight("getOne")
        /\ Edit!InFlight("seatsAvailability")' = Edit!InFlight("seatsAvailability") \cup Edit!MapCalls(s)
    BY <2>2 DEF EditPrices, Edit!InFlight, Edit!MapCalls, Edit!PriceCalls
  <2>4. EditPrices # {} => s.selectedSeat # NoSeat
    BY <2>1 DEF EditInv
  <2>5. s.loading => Edit!InFlight("getOne")' # {} \/ nav' # NoPage
    BY <2>1, <2>2, <2>3 DEF EditInv, Edit!SpinnersHaveCalls
  <2> HIDE DEF s
  <2> QED
    BY <2>1, <2>2, <2>3, <2>4, <2>5, EditFollows
<1>2. ASSUME NEW seat \in Seats, Edit!OnSeatPicked(seat)
      PROVE  EditInv'
  <2> DEFINE s == [screen EXCEPT !.selectedSeat = seat, !.availability = NoInvoice]
             p == Edit!AskPrice(s)
  <2>1. /\ s \in Edit!Form /\ s.selectedSeat = seat /\ s.window = screen.window
        /\ s.priceReqId = screen.priceReqId /\ s.availability = NoInvoice
        /\ s.loadingSeats = screen.loadingSeats
        /\ s.loading = screen.loading /\ s.saving = screen.saving
        /\ s.canSave = screen.canSave /\ s.tracks = screen.tracks
    BY <1>0 DEF Edit!Form
  <2>2. seat # NoSeat /\ Edit!Valid(screen) /\ Edit!Valid(s)
    BY <1>2, <2>1, FormAssumption DEF Edit!OnSeatPicked, Edit!Pickable, Edit!Valid
  <2>3. CASE seat = screen.selectedSeat
    <3>1. screen' = Edit!Render(s) /\ calls' = calls /\ nav' = nav
      BY <1>2, <2>3 DEF Edit!OnSeatPicked
    <3> HIDE DEF s
    <3>2. /\ screen'.window = s.window /\ screen'.selectedSeat = s.selectedSeat
          /\ screen'.availability = NoInvoice /\ screen'.priceReqId = s.priceReqId
          /\ screen'.loading = s.loading /\ screen'.loadingSeats = s.loadingSeats
          /\ screen'.saving = s.saving
      BY <2>1, <3>1, EditRenderFields
    <3>3. /\ Edit!CanSaveIsCurrent'
          /\ screen'.canSave => screen'.tracks
          /\ screen'.tracks /\ ~Edit!Valid(screen') => screen'.availability = NoInvoice
      BY <2>1, <3>1, EditRendered
    <3>4. EditPrices' = EditPrices /\ Edit!SpinnersHaveCalls'
      BY <2>1, <3>1, <3>2 DEF EditInv, EditPrices, Edit!InFlight, Edit!SpinnersHaveCalls
    <3>5. Edit!SettledInvoiceIsCurrent'
      BY <3>2 DEF Edit!SettledInvoiceIsCurrent
    <3>6. Edit!Valid(screen') = Edit!Valid(screen)
      BY <2>1, <3>2 DEF Edit!Valid
    <3> QED
      BY <2>1, <2>3, <3>2, <3>3, <3>4, <3>5, <3>6 DEF EditInv
  <2>4. CASE seat # screen.selectedSeat
    <3>1. screen' = Edit!Render(p) /\ calls' = calls \cup Edit!PriceCalls(s) /\ nav' = nav
      BY <1>2, <2>4 DEF Edit!OnSeatPicked
    <3>2. /\ EditPrices' = EditPrices \cup Edit!PriceCalls(s)
          /\ Edit!InFlight("update")' = Edit!InFlight("update")
          /\ Edit!InFlight("getOne")' = Edit!InFlight("getOne")
          /\ Edit!InFlight("seatsAvailability")' = Edit!InFlight("seatsAvailability")
      BY <3>1 DEF EditPrices, Edit!InFlight, Edit!PriceCalls
    <3> HIDE DEF s
    <3>3. /\ p \in Edit!Form /\ p.window = s.window /\ p.selectedSeat = s.selectedSeat
          /\ p.loading = s.loading /\ p.saving = s.saving /\ p.canSave = s.canSave
          /\ p.tracks = s.tracks /\ p.loadingSeats = s.loadingSeats
          /\ p.availability = NoInvoice
      BY <2>1, EditAskPrice, EditAskPriceFields
    <3> HIDE DEF p
    <3>4. /\ screen'.window = p.window /\ screen'.selectedSeat = p.selectedSeat
          /\ screen'.availability = p.availability /\ screen'.priceReqId = p.priceReqId
          /\ screen'.loading = p.loading /\ screen'.loadingSeats = p.loadingSeats
          /\ screen'.saving = p.saving
      BY <3>1, <3>3, EditRenderFields
    <3>5. /\ Edit!CanSaveIsCurrent'
          /\ screen'.canSave => screen'.tracks
          /\ screen'.tracks /\ ~Edit!Valid(screen') => screen'.availability = NoInvoice
      BY <2>1, <3>1, <3>3, EditRendered
    <3>6. Edit!SpinnersHaveCalls'
      BY <2>1, <3>1, <3>2, <3>3, <3>4 DEF EditInv, Edit!SpinnersHaveCalls
    <3>7. /\ \A c \in EditPrices' : c.id <= screen'.priceReqId /\ screen'.selectedSeat # NoSeat
          /\ \A c \in EditPrices' : c.id = screen'.priceReqId /\ Edit!Valid(screen') =>
               c.seat = screen'.selectedSeat /\ c.window = screen'.window
          /\ Edit!SettledInvoiceIsCurrent'
      BY <2>1, <2>2, <3>2, <3>3, <3>4, EditAsked DEF p
    <3> QED
      BY <3>5, <3>6, <3>7 DEF EditInv
  <2> QED
    BY <2>3, <2>4
<1>3. CASE Edit!Save
  <2> DEFINE new == [call |-> "update", seat |-> screen.selectedSeat, window |-> screen.window]
  <2>1. screen' = [screen EXCEPT !.saving = TRUE] /\ calls' = calls \cup {new} /\ nav' = nav
    BY <1>3 DEF Edit!Save
  <2>2. new.call = "update"
    OBVIOUS
  <2> HIDE DEF new
  <2>3. /\ EditPrices' = EditPrices /\ Edit!InFlight("update")' # {}
        /\ Edit!InFlight("getOne")' = Edit!InFlight("getOne")
        /\ Edit!InFlight("seatsAvailability")' = Edit!InFlight("seatsAvailability")
    BY <2>1, <2>2 DEF EditPrices, Edit!InFlight
  <2>4. /\ screen'.window = screen.window /\ screen'.selectedSeat = screen.selectedSeat
        /\ screen'.availability = screen.availability /\ screen'.original = screen.original
        /\ screen'.priceReqId = screen.priceReqId /\ screen'.canSave = screen.canSave
        /\ screen'.tracks = screen.tracks /\ screen'.loading = screen.loading
        /\ screen'.loadingSeats = screen.loadingSeats
    BY <1>0, <2>1 DEF Edit!Form
  <2>5. Edit!SpinnersHaveCalls'
    BY <2>1, <2>3, <2>4 DEF Edit!SpinnersHaveCalls, EditInv
  <2> QED
    BY <2>3, <2>4, <2>5, EditIdle
<1>4. ASSUME NEW c \in Edit!InFlight("getOne"), NEW b \in Edit!Booking, Edit!BookingLoaded(c, b)
      PROVE  EditInv'
  <2>1. CASE Edit!Editable(b)
    <3> DEFINE s == Edit!Prefill(b)
    <3>1. /\ s \in Edit!Form /\ s.selectedSeat = b.seat /\ s.loading = FALSE
          /\ s.priceReqId = screen.priceReqId /\ s.availability = screen.availability
          /\ s.loadingSeats = screen.loadingSeats /\ s.saving = screen.saving
          /\ s.canSave = screen.canSave /\ s.tracks = screen.tracks
      BY <1>0 DEF Edit!Form, Edit!Prefill, Edit!Booking
    <3>2. /\ screen' = Edit!Render(Edit!AskMap(Edit!AskPrice(s))) /\ nav' = nav
          /\ calls' = (calls \ {c}) \cup (Edit!MapCalls(s) \cup Edit!PriceCalls(s))
      BY <1>4, <2>1 DEF Edit!BookingLoaded
    <3>3. c.call = "getOne"
      BY DEF Edit!InFlight
    <3>4. /\ EditPrices' = EditPrices \cup Edit!PriceCalls(s)
          /\ Edit!InFlight("update")' = Edit!InFlight("update")
          /\ Edit!InFlight("seatsAvailability")' =
               Edit!InFlight("seatsAvailability") \cup Edit!MapCalls(s)
      BY <3>2, <3>3 DEF EditPrices, Edit!InFlight, Edit!MapCalls, Edit!PriceCalls
    <3>5. s.selectedSeat # NoSeat
      BY <3>1, FormAssumption DEF Edit!Booking
    <3> HIDE DEF s
    <3> QED
      BY <3>1, <3>2, <3>4, <3>5, EditFollows
  <2>2. CASE ~Edit!Editable(b)
    <3> DEFINE s == [screen EXCEPT !.original = b]
    <3>1. /\ s \in Edit!Form /\ s.selectedSeat = screen.selectedSeat /\ s.window = screen.window
          /\ s.priceReqId = screen.priceReqId /\ s.availability = screen.availability
          /\ s.loadingSeats = screen.loadingSeats /\ s.saving = screen.saving
          /\ s.canSave = screen.canSave /\ s.tracks = screen.tracks
      BY <1>0 DEF Edit!Form
    <3>2. screen' = Edit!Render(s) /\ nav' = "my-bookings" /\ calls' = calls \ {c}
      BY <1>4, <2>2 DEF Edit!BookingLoaded, Edit!ReceiveAndLeave
    <3>3. c.call = "getOne"
      BY DEF Edit!InFlight
    <3>4. /\ EditPrices' = EditPrices
          /\ Edit!InFlight("update")' = Edit!InFlight("update")
          /\ Edit!InFlight("seatsAvailability")' = Edit!InFlight("seatsAvailability")
      BY <3>2, <3>3 DEF EditPrices, Edit!InFlight
    <3> HIDE DEF s
    <3>5. /\ screen'.window = s.window /\ screen'.selectedSeat = s.selectedSeat
          /\ screen'.availability = s.availability /\ screen'.priceReqId = s.priceReqId
          /\ screen'.loadingSeats = s.loadingSeats /\ screen'.saving = s.saving
      BY <3>1, <3>2, EditRenderFields
    <3>6. Edit!Valid(s) = Edit!Valid(screen) /\ Edit!Valid(screen') = Edit!Valid(screen)
      BY <3>1, <3>5 DEF Edit!Valid
    <3>7. /\ Edit!CanSaveIsCurrent'
          /\ screen'.canSave => screen'.tracks
          /\ screen'.tracks /\ ~Edit!Valid(screen') => screen'.availability = NoInvoice
      BY <3>1, <3>2, <3>6, EditRendered
    <3>8. Edit!SpinnersHaveCalls'
      BY <3>1, <3>2, <3>4, <3>5, PageAssumption DEF EditInv, Edit!SpinnersHaveCalls, UserPages
    <3>9. Edit!SettledInvoiceIsCurrent'
      BY <3>1, <3>4, <3>5, <3>6 DEF EditInv, Edit!SettledInvoiceIsCurrent, EditPrices
    <3> QED
      BY <3>1, <3>4, <3>5, <3>6, <3>7, <3>8, <3>9 DEF EditInv
  <2> QED
    BY <2>1, <2>2
<1>5. ASSUME NEW c, \/ c \in Edit!InFlight("getOne") /\ Edit!BookingFailed(c)
                    \/ c \in Edit!InFlight("update") /\ (Edit!Updated(c) \/ Edit!UpdateFailed(c))
                    \/ /\ c \in Edit!InFlight("seatsAvailability")
                       /\ Edit!SeatsFailed(c) \/ \E taken \in SUBSET Seats : Edit!SeatsAnswered(c, taken)
      PROVE  EditInv'
  <2>1. /\ calls' = calls \ {c}
        /\ c.call \in {"getOne", "update", "seatsAvailability"}
        /\ nav' \in {nav, "my-bookings"}
    BY <1>5 DEF Edit!BookingFailed, Edit!Updated, Edit!UpdateFailed, Edit!SeatsFailed,
                Edit!SeatsAnswered, Edit!ReceiveAndLeave, Edit!InFlight
  <2>2. /\ EditPrices' = EditPrices
        /\ \A m : m # c.call => Edit!InFlight(m)' = Edit!InFlight(m)
    BY <2>1 DEF EditPrices, Edit!InFlight
  <2> DEFINE Fields ==
        /\ screen'.window = screen.window /\ screen'.selectedSeat = screen.selectedSeat
        /\ screen'.availability = screen.availability /\ screen'.original = screen.original
        /\ screen'.priceReqId = screen.priceReqId /\ screen'.canSave = screen.canSave
        /\ screen'.tracks = screen.tracks
        /\ screen'.loading = IF c.call = "getOne" THEN FALSE ELSE screen.loading
        /\ screen'.saving = IF c.call = "update" THEN FALSE ELSE screen.saving
        /\ screen'.loadingSeats = IF c.call = "seatsAvailability" THEN FALSE ELSE screen.loadingSeats
  <2>3. Fields
    <3>1. CASE c \in Edit!InFlight("getOne") /\ Edit!BookingFailed(c)
      BY <1>0, <3>1 DEF Edit!BookingFailed, Edit!ReceiveAndLeave, Edit!InFlight, Edit!Form
    <3>2. CASE c \in Edit!InFlight("update") /\ (Edit!Updated(c) \/ Edit!UpdateFailed(c))
      BY <1>0, <3>2 DEF Edit!Updated, Edit!UpdateFailed, Edit!ReceiveAndLeave, Edit!InFlight, Edit!Form
    <3>3. CASE c \in Edit!InFlight("seatsAvailability") /\ Edit!SeatsFailed(c)
      BY <1>0, <3>3 DEF Edit!SeatsFailed, Edit!InFlight, Edit!Form
    <3>4. ASSUME NEW taken \in SUBSET Seats, c \in Edit!InFlight("seatsAvailability"),
                 Edit!SeatsAnswered(c, taken)
          PROVE  Fields
      BY <1>0, <3>4 DEF Edit!SeatsAnswered, Edit!InFlight, Edit!Form
    <3> QED
      BY <1>5, <3>1, <3>2, <3>3, <3>4
  <2>4. Edit!SpinnersHaveCalls'
    BY <2>1, <2>2, <2>3, PageAssumption DEF EditInv, Edit!SpinnersHaveCalls, UserPages
  <2> QED
    BY <2>2, <2>3, <2>4, EditIdle
<1>6. ASSUME NEW c \in EditPrices,
             \/ Edit!PriceFailed(c)
             \/ \E available, cheaper \in BOOLEAN : Edit!PriceAnswered(c, available, cheaper)
      PROVE  EditInv'
  <2>1. calls' = calls \ {c} /\ c.call = "checkAvailability" /\ nav' = nav
    BY <1>6 DEF Edit!PriceAnswered, Edit!PriceFailed, EditPrices, Edit!InFlight
  <2>2. /\ EditPrices' = EditPrices \ {c}
        /\ Edit!InFlight("update")' = Edit!InFlight("update")
        /\ Edit!InFlight("getOne")' = Edit!InFlight("getOne")
        /\ Edit!InFlight("seatsAvailability")' = Edit!InFlight("seatsAvailability")
    BY <2>1 DEF EditPrices, Edit!InFlight
  <2>3. CASE c.id # screen.priceReqId
    <3>1. screen' = screen
      BY <1>6, <2>3 DEF Edit!PriceAnswered, Edit!PriceFailed
    <3>2. Edit!SettledInvoiceIsCurrent' /\ Edit!SpinnersHaveCalls' /\ Edit!CanSaveIsCurrent'
      BY <2>1, <2>2, <2>3, <3>1 DEF EditInv, EditPrices, Edit!SettledInvoiceIsCurrent,
         Edit!SpinnersHaveCalls, Edit!CanSaveIsCurrent
    <3> QED
      BY <2>2, <3>1, <3>2 DEF EditInv
  <2>4. CASE c.id = screen.priceReqId
    <3>1. PICK i \in Edit!Invoice \cup {NoInvoice} :
            /\ screen' = Edit!Render([screen EXCEPT !.availability = i])
            /\ i # NoInvoice => i.seat = c.seat /\ i.window = c.window
      <4>1. c.seat \in Seats /\ c.window \in Windows
        BY DEF Edit!TypeOK, EditPrices, Edit!InFlight, Edit!GetCall, Edit!MapCall,
               Edit!PriceCall, Edit!UpdateCall
      <4>2. ASSUME NEW available \in BOOLEAN, NEW cheaper \in BOOLEAN,
                   Edit!PriceAnswered(c, available, cheaper)
            PROVE  \E i \in Edit!Invoice \cup {NoInvoice} :
                     /\ screen' = Edit!Render([screen EXCEPT !.availability = i])
                     /\ i # NoInvoice => i.seat = c.seat /\ i.window = c.window
        <5> DEFINE i == [seat |-> c.seat, window |-> c.window,
                         available |-> available, cheaper |-> cheaper]
        <5>1. i \in Edit!Invoice /\ i.seat = c.seat /\ i.window = c.window
          BY <4>1 DEF Edit!Invoice
        <5>2. screen' = Edit!Render([screen EXCEPT !.availability = i])
          BY <2>4, <4>2 DEF Edit!PriceAnswered
        <5> HIDE DEF i
        <5> QED
          BY <5>1, <5>2
      <4>3. CASE Edit!PriceFailed(c)
        BY <2>4, <4>3 DEF Edit!PriceFailed
      <4> QED
        BY <1>6, <4>2, <4>3
    <3> DEFINE s == [screen EXCEPT !.availability = i]
    <3>2. /\ s \in Edit!Form /\ s.selectedSeat = screen.selectedSeat /\ s.window = screen.window
          /\ s.priceReqId = screen.priceReqId /\ s.availability = i /\ s.loading = screen.loading
          /\ s.loadingSeats = screen.loadingSeats /\ s.saving = screen.saving
          /\ s.canSave = screen.canSave /\ s.tracks = screen.tracks
      BY <1>0 DEF Edit!Form
    <3>3. screen' = Edit!Render(s)
      BY <3>1
    <3> HIDE DEF s
    <3>4. /\ screen'.window = s.window /\ screen'.selectedSeat = s.selectedSeat
          /\ screen'.availability = i /\ screen'.priceReqId = s.priceReqId
          /\ screen'.loading = s.loading /\ screen'.loadingSeats = s.loadingSeats
          /\ screen'.saving = s.saving
      BY <3>2, <3>3, EditRenderFields
    <3>5. Edit!Valid(s) = Edit!Valid(screen) /\ Edit!Valid(screen') = Edit!Valid(screen)
      BY <3>2, <3>4 DEF Edit!Valid
    <3>6. /\ Edit!CanSaveIsCurrent'
          /\ screen'.canSave => screen'.tracks
          /\ screen'.tracks /\ ~Edit!Valid(screen') => screen'.availability = NoInvoice
      BY <3>2, <3>3, <3>5, EditRendered
    <3>7. Edit!SpinnersHaveCalls'
      BY <2>1, <2>2, <3>2, <3>4 DEF EditInv, Edit!SpinnersHaveCalls
    <3>8. Edit!SettledInvoiceIsCurrent'
      BY <2>4, <3>1, <3>2, <3>4, <3>5 DEF EditInv, Edit!SettledInvoiceIsCurrent
    <3> QED
      BY <2>2, <3>2, <3>4, <3>5, <3>6, <3>7, <3>8 DEF EditInv
  <2> QED
    BY <2>3, <2>4
<1> QED
  BY <1>1, <1>2, <1>3, <1>4, <1>5, <1>6
     DEF Edit!Next, Edit!AnswerBooking, Edit!AnswerMap, Edit!AnswerPrice, Edit!AnswerUpdate,
         EditPrices

-----------------------------------------------------------------------------
(* The tables.                                                             *)

\* Which calls an answered one and new ones leave in flight.
LEMMA MineSpinners ==
  ASSUME Mine!TypeOK, Mine!SpinnersHaveCalls, Mine!Next
  PROVE  Mine!SpinnersHaveCalls'
<1> USE DEF Mine!Handle, Mine!Receive, Mine!InFlight, Mine!SpinnersHaveCalls
<1>0. screen \in Mine!Page
  BY DEF Mine!TypeOK
<1>1. ASSUME NEW b \in Bookings, Mine!Upload(b)
      PROVE  Mine!SpinnersHaveCalls'
  <2> DEFINE new == [call |-> "uploadPaymentProof", id |-> screen.sent + 1, booking |-> b]
  <2>1. calls' = calls \cup {new} /\ new.call = "uploadPaymentProof" /\ new.booking = b
    BY <1>1 DEF Mine!Upload
  <2>2. screen'.loading = screen.loading /\ screen'.uploadingId = b
    BY <1>0, <1>1 DEF Mine!Upload, Mine!Page
  <2> HIDE DEF new
  <2> QED
    BY <2>1, <2>2
<1>2. CASE Mine!EditBooking
  BY <1>2 DEF Mine!EditBooking
<1>3. ASSUME NEW c, c.call # "mine", c.call # "uploadPaymentProof", calls \ {c} \subseteq calls',
             screen'.loading = screen.loading, screen'.uploadingId = screen.uploadingId
      PROVE  Mine!SpinnersHaveCalls'
  BY <1>3
<1>4. CASE Mine!AnswerList
  <2>1. PICK c \in calls : /\ c.call = "mine" /\ calls \ {c} \subseteq calls'
                           /\ screen'.loading = FALSE /\ screen'.uploadingId = screen.uploadingId
    BY <1>0, <1>4 DEF Mine!AnswerList, Mine!Listed, Mine!ListFailed, Mine!Page
  <2> QED
    BY <2>1
<1>5. CASE Mine!AnswerSettings
  BY <1>0, <1>3, <1>5 DEF Mine!AnswerSettings, Mine!SettingsAnswered, Mine!SettingsFailed, Mine!Page
<1>6. CASE Mine!AnswerQr
  BY <1>0, <1>3, <1>6 DEF Mine!AnswerQr, Mine!QrAnswered, Mine!QrFailed, Mine!Page
<1>7. CASE Mine!AnswerUpload
  <2>1. PICK c \in calls : /\ c.call = "uploadPaymentProof" /\ calls' = calls \ {c}
                           /\ screen'.loading = screen.loading /\ screen'.uploadingId = NoOne
    BY <1>0, <1>7 DEF Mine!AnswerUpload, Mine!Uploaded, Mine!UploadFailed, Mine!Page
  <2> QED
    BY <2>1
<1> QED
  BY <1>1, <1>2, <1>4, <1>5, <1>6, <1>7 DEF Mine!Next

\* A draft goes when its row is read again, and a busy row has its call.
LEMMA PaymentsStep ==
  ASSUME Payments!TypeOK, Payments!DraftIsForThisRow, Payments!SpinnersHaveCalls, Payments!Next
  PROVE  Payments!DraftIsForThisRow' /\ Payments!SpinnersHaveCalls'
<1> USE DEF Payments!Handle, Payments!Receive, Payments!InFlight, Payments!SpinnersHaveCalls,
            Payments!DraftIsForThisRow
<1>0. screen \in Payments!Page
  BY DEF Payments!TypeOK
<1>1. CASE Payments!Reload
  <2> DEFINE new == [call |-> "pendingPayments", id |-> Payments!Number]
  <2>1. calls' = calls \cup {new} /\ new.call = "pendingPayments"
    BY <1>1 DEF Payments!Reload
  <2>2. /\ screen'.rows = screen.rows /\ screen'.amountDrafts = screen.amountDrafts
        /\ screen'.busyId = screen.busyId
    BY <1>0, <1>1 DEF Payments!Reload, Payments!Page
  <2> HIDE DEF new
  <2> QED
    BY <2>1, <2>2
<1>2. ASSUME NEW b \in Bookings, NEW amount \in Amounts \cup {0}, Payments!SetAmount(b, amount)
      PROVE  Payments!DraftIsForThisRow' /\ Payments!SpinnersHaveCalls'
  <2> DEFINE draft == [amount |-> amount, due |-> screen.rows[b]]
  <2>1. screen' = [screen EXCEPT !.amountDrafts[b] = draft] /\ calls' = calls
        /\ draft.due = screen.rows[b]
    BY <1>2 DEF Payments!SetAmount
  <2> HIDE DEF draft
  <2>2. /\ screen'.rows = screen.rows /\ screen'.loading = screen.loading
        /\ screen'.busyId = screen.busyId
        /\ \A o \in Bookings : screen'.amountDrafts[o] = IF o = b THEN draft
                                                       ELSE screen.amountDrafts[o]
    BY <1>0, <2>1 DEF Payments!Page
  <2> QED
    BY <2>1, <2>2
<1>c. ASSUME NEW b \in Bookings, Payments!ClearAmount(b)
      PROVE  Payments!DraftIsForThisRow' /\ Payments!SpinnersHaveCalls'
  <2>1. screen' = [screen EXCEPT !.amountDrafts[b] = NoDraft] /\ calls' = calls
    BY <1>c DEF Payments!ClearAmount
  <2>2. /\ screen'.rows = screen.rows /\ screen'.loading = screen.loading
        /\ screen'.busyId = screen.busyId
        /\ \A o \in Bookings : screen'.amountDrafts[o] = IF o = b THEN NoDraft
                                                       ELSE screen.amountDrafts[o]
    BY <1>0, <2>1 DEF Payments!Page
  <2> QED
    BY <2>1, <2>2
<1>3. ASSUME NEW b \in Bookings, Payments!Approve(b) \/ Payments!Reject(b)
      PROVE  Payments!DraftIsForThisRow' /\ Payments!SpinnersHaveCalls'
  <2> DEFINE approval == [call |-> "approvePayment", id |-> Payments!Number, booking |-> b,
                          amount |-> Payments!AmountSent(b)]
             rejection == [call |-> "rejectPayment", id |-> Payments!Number, booking |-> b]
  <2>a. calls' = calls \cup {approval} \/ calls' = calls \cup {rejection}
    BY <1>3 DEF Payments!Approve, Payments!Reject
  <2>b. /\ approval.call = "approvePayment" /\ approval.booking = b
        /\ rejection.call = "rejectPayment" /\ rejection.booking = b
    OBVIOUS
  <2> HIDE DEF approval, rejection
  <2>1. PICK new : /\ calls' = calls \cup {new} /\ new.booking = b
                   /\ new.call \in {"approvePayment", "rejectPayment"}
    BY <2>a, <2>b
  <2>2. /\ screen'.rows = screen.rows /\ screen'.loading = screen.loading
        /\ screen'.busyId = b /\ screen'.amountDrafts = screen.amountDrafts
    BY <1>0, <1>3 DEF Payments!Approve, Payments!Reject, Payments!Page
  <2> QED
    BY <2>1, <2>2
<1>4. ASSUME NEW c \in Payments!InFlight("pendingPayments"),
             NEW rows \in [Bookings -> Amounts \cup {NoRow}], Payments!Listed(c, rows)
      PROVE  Payments!DraftIsForThisRow' /\ Payments!SpinnersHaveCalls'
  <2>1. calls' = calls \ {c} /\ c.call = "pendingPayments"
    BY <1>4 DEF Payments!Listed
  <2>2. /\ screen'.amountDrafts = Payments!NoDrafts /\ screen'.loading = FALSE
        /\ screen'.busyId = screen.busyId
    BY <1>0, <1>4 DEF Payments!Listed, Payments!Page
  <2> QED
    BY <2>1, <2>2 DEF Payments!NoDrafts
<1>5. ASSUME NEW c \in Payments!InFlight("pendingPayments"), Payments!ListFailed(c)
      PROVE  Payments!DraftIsForThisRow' /\ Payments!SpinnersHaveCalls'
  <2>1. /\ screen'.rows = screen.rows /\ screen'.loading = FALSE
        /\ screen'.busyId = screen.busyId /\ screen'.amountDrafts = screen.amountDrafts
    BY <1>0, <1>5 DEF Payments!ListFailed, Payments!Page
  <2> QED
    BY <1>5, <2>1 DEF Payments!ListFailed
<1>6. ASSUME NEW c \in Payments!InFlight("approvePayment") \cup Payments!InFlight("rejectPayment"),
             Payments!Settled(c) \/ Payments!SettleFailed(c)
      PROVE  Payments!DraftIsForThisRow' /\ Payments!SpinnersHaveCalls'
  <2>0. calls' = calls \ {c} /\ c.call # "pendingPayments"
    BY <1>6 DEF Payments!Settled, Payments!SettleFailed
  <2>2. CASE Payments!SettleFailed(c)
    <3>1. /\ screen'.busyId = NoOne /\ screen'.rows = screen.rows
          /\ screen'.loading = screen.loading /\ screen'.amountDrafts = screen.amountDrafts
      BY <1>0, <2>2 DEF Payments!SettleFailed, Payments!Page
    <3> QED
      BY <2>0, <3>1
  <2>1. CASE Payments!Settled(c)
    <3>1. screen' = [screen EXCEPT !.busyId = NoOne, !.rows[c.booking] = NoRow]
      BY <2>1 DEF Payments!Settled
    <3>2. /\ screen'.busyId = NoOne
          /\ screen'.loading = screen.loading /\ screen'.amountDrafts = screen.amountDrafts
          /\ screen'.rows = [screen.rows EXCEPT ![c.booking] = NoRow]
      BY <1>0, <3>1 DEF Payments!Page
    <3>3. \A o \in Bookings : screen'.rows[o] = screen.rows[o] \/ screen'.rows[o] = NoRow
      BY <1>0, <3>2 DEF Payments!Page
    <3> QED
      BY <2>0, <3>2, <3>3
  <2> QED
    BY <1>6, <2>1, <2>2
<1> QED
  BY <1>1, <1>2, <1>c, <1>3, <1>4, <1>5, <1>6
     DEF Payments!Next, Payments!AnswerList, Payments!AnswerApprove, Payments!AnswerReject

\* The list is loading while a list is on its way, a busy row while its call is.
LEMMA AllSpinners ==
  ASSUME All!TypeOK, All!SpinnersHaveCalls, All!Next
  PROVE  All!SpinnersHaveCalls'
<1> USE DEF All!Handle, All!Receive, All!InFlight, All!SpinnersHaveCalls
<1>0. screen \in All!Page
  BY DEF All!TypeOK
<1>1. ASSUME NEW filter \in All!StatusFilter, All!Reload(filter)
      PROVE  All!SpinnersHaveCalls'
  <2> DEFINE new == [call |-> "allBookings", id |-> All!Number, filter |-> filter]
  <2>1. calls' = calls \cup {new} /\ new.call = "allBookings"
    BY <1>1 DEF All!Reload
  <2>2. screen'.busyId = screen.busyId
    BY <1>0, <1>1 DEF All!Reload, All!Page
  <2> HIDE DEF new
  <2> QED
    BY <2>1, <2>2
<1>2. CASE All!Search
  BY <1>0, <1>2 DEF All!Search, All!Page
<1>3. ASSUME NEW b \in Bookings, NEW method \in {"approvePayment", "rejectPayment"},
             All!Settle(method, b)
      PROVE  All!SpinnersHaveCalls'
  <2> DEFINE new == [call |-> method, id |-> All!Number, booking |-> b]
  <2>1. calls' = calls \cup {new} /\ new.booking = b /\ new.call = method
    BY <1>3 DEF All!Settle
  <2> HIDE DEF new
  <2>2. screen'.busyId = b /\ screen'.loading = screen.loading
    BY <1>0, <1>3 DEF All!Settle, All!Page
  <2> QED
    BY <2>1, <2>2
<1>4. ASSUME NEW s \in All!Page
      PROVE  All!Filtered(s).busyId = s.busyId /\ All!Filtered(s).loading = s.loading
  BY DEF All!Filtered, All!Page
<1>5. ASSUME NEW c \in All!InFlight("allBookings"), NEW rows \in All!Answers(c), All!Listed(c, rows)
      PROVE  All!SpinnersHaveCalls'
  <2> DEFINE s == [screen EXCEPT !.rows = rows, !.loading = FALSE]
  <2>1. c.filter \in All!StatusFilter
    BY DEF All!TypeOK, All!ListCall, All!SettleCall
  <2>2. rows \in [Bookings -> All!BookingStatus \cup {NoRow}]
    BY <2>1 DEF All!Answers, All!StatusFilter, All!BookingStatus
  <2>3. s \in All!Page /\ s.loading = FALSE /\ s.busyId = screen.busyId
    BY <1>0, <2>2 DEF All!Page
  <2>4. screen' = All!Filtered(s) /\ calls' = calls \ {c}
    BY <1>5 DEF All!Listed
  <2> HIDE DEF s
  <2> QED
    BY <1>4, <2>3, <2>4
<1>6. ASSUME NEW c \in All!InFlight("allBookings"), All!ListFailed(c)
      PROVE  All!SpinnersHaveCalls'
  <2>1. screen'.loading = FALSE /\ screen'.busyId = screen.busyId /\ calls' = calls \ {c}
    BY <1>0, <1>6 DEF All!ListFailed, All!Page
  <2> QED
    BY <2>1
<1>7. ASSUME NEW c \in All!InFlight("approvePayment") \cup All!InFlight("rejectPayment"),
             All!Settled(c) \/ All!SettleFailed(c)
      PROVE  All!SpinnersHaveCalls'
  <2>1. screen'.loading = screen.loading /\ screen'.busyId = NoOne
    BY <1>0, <1>7 DEF All!Settled, All!SettleFailed, All!Filtered, All!Page
  <2>2. calls' = calls \ {c} /\ c.call # "allBookings"
    BY <1>7 DEF All!Settled, All!SettleFailed
  <2> QED
    BY <2>1, <2>2
<1> QED
  BY <1>1, <1>2, <1>3, <1>5, <1>6, <1>7 DEF All!Next, All!AnswerList, All!AnswerSettle

\* Every page of users that is waited for was asked for.
LEMMA UserListSpinners ==
  ASSUME UserList!TypeOK, UserList!SpinnersHaveCalls, UserList!Next
  PROVE  UserList!SpinnersHaveCalls'
<1> USE DEF UserList!Handle, UserList!Receive, UserList!InFlight, UserList!SpinnersHaveCalls
<1>0. screen \in UserList!Page
  BY DEF UserList!TypeOK
<1>1. ASSUME NEW s, NEW token, UserList!LoadPage(s, token)
      PROVE  UserList!SpinnersHaveCalls'
  <2> DEFINE new == [call |-> "list", id |-> UserList!Number, token |-> token,
                     emailPrefix |-> s.emailFilter]
  <2>1. calls' = calls \cup {new} /\ new.call = "list"
    BY <1>1 DEF UserList!LoadPage
  <2> HIDE DEF new
  <2> QED
    BY <2>1
<1>2. CASE UserList!NextPage \/ UserList!PreviousPage \/ UserList!Debounced
  BY <1>1, <1>2 DEF UserList!NextPage, UserList!PreviousPage, UserList!Debounced
<1>3. CASE UserList!TypeFilter
  BY <1>0, <1>3 DEF UserList!TypeFilter, UserList!Page
<1>4. ASSUME NEW u, NEW method, UserList!ChangeRole(method, u)
      PROVE  UserList!SpinnersHaveCalls'
  <2>1. screen' = [screen EXCEPT !.sent = @ + 1] /\ calls \subseteq calls'
    BY <1>4, Zenon DEF UserList!ChangeRole
  <2>2. screen'.loading = screen.loading
    BY <1>0, <2>1 DEF UserList!Page
  <2> QED
    BY <2>1, <2>2
<1>5. CASE UserList!AnswerList
  <2>1. screen'.loading = FALSE
    BY <1>0, <1>5 DEF UserList!AnswerList, UserList!Listed, UserList!ListFailed, UserList!Page
  <2> QED
    BY <2>1
<1>6. CASE UserList!AnswerRole
  <2>1. PICK c : c.call # "list" /\ calls' = calls \ {c} /\ screen'.loading = screen.loading
    BY <1>0, <1>6 DEF UserList!AnswerRole, UserList!RoleChanged, UserList!RoleFailed, UserList!Page
  <2> QED
    BY <2>1
<1> QED
  BY <1>2, <1>3, <1>4, <1>5, <1>6 DEF UserList!Next

\* The buttons' flag goes with the one call that set it.
LEMMA RolesSpinners ==
  ASSUME Roles!TypeOK, Roles!SpinnersHaveCalls, Roles!Next
  PROVE  Roles!SpinnersHaveCalls'
<1> USE DEF Roles!Handle, Roles!Receive, Roles!InFlight, Roles!SpinnersHaveCalls
<1>0. screen \in Roles!Page
  BY DEF Roles!TypeOK
<1>1. CASE Roles!LoadMembers
  <2> DEFINE new == [call |-> "membersOf", id |-> Roles!Number]
  <2>1. calls' = calls \cup {new} /\ new.call = "membersOf"
    BY <1>1 DEF Roles!LoadMembers
  <2> HIDE DEF new
  <2>2. screen'.busy = screen.busy
    BY <1>0, <1>1 DEF Roles!LoadMembers, Roles!Page
  <2> QED
    BY <2>1, <2>2
<1>2. CASE Roles!EditForm
  BY <1>0, <1>2 DEF Roles!EditForm, Roles!Page
<1>3. ASSUME NEW method \in {"grant", "revoke"}, Roles!ChangeRole(method)
      PROVE  Roles!SpinnersHaveCalls'
  <2> DEFINE new == [call |-> method, id |-> Roles!Number]
  <2>1. calls' = calls \cup {new} /\ new.call = method
    BY <1>3 DEF Roles!ChangeRole
  <2> HIDE DEF new
  <2>2. screen'.busy = TRUE /\ ~screen.busy
    BY <1>0, <1>3 DEF Roles!ChangeRole, Roles!Page
  <2> QED
    BY <2>1, <2>2
<1>4. CASE Roles!AnswerMembers
  <2>1. PICK c : c.call = "membersOf" /\ calls' = calls \ {c} /\ screen'.busy = screen.busy
    BY <1>0, <1>4 DEF Roles!AnswerMembers, Roles!MembersAnswered, Roles!MembersFailed, Roles!Page
  <2> QED
    BY <2>1
<1>5. ASSUME NEW c \in Roles!InFlight("grant") \cup Roles!InFlight("revoke"),
             Roles!RoleChanged(c) \/ Roles!RoleFailed(c)
      PROVE  Roles!SpinnersHaveCalls'
  <2> DEFINE new == [call |-> "membersOf", id |-> Roles!Number]
  <2>1. screen'.busy = FALSE
    <3>1. CASE Roles!RoleChanged(c)
      BY <1>0, <3>1 DEF Roles!RoleChanged, Roles!Page
    <3>2. CASE Roles!RoleFailed(c)
      BY <1>0, <3>2 DEF Roles!RoleFailed, Roles!Page
    <3> QED
      BY <1>5, <3>1, <3>2
  <2>3. (calls' = (calls \ {c}) \cup {new} \/ calls' = calls \ {c}) /\ new.call = "membersOf"
    BY <1>5 DEF Roles!RoleChanged, Roles!RoleFailed
  <2> HIDE DEF new
  <2>2. \A d \in calls' : d \in calls \ {c} \/ d.call = "membersOf"
    BY <2>3
  <2> QED
    BY <2>1, <2>2
<1> QED
  BY <1>1, <1>2, <1>3, <1>4, <1>5 DEF Roles!Next, Roles!AnswerRole

\* The form's two flags go with its two calls.
LEMMA PricingSpinners ==
  ASSUME Pricing!TypeOK, Pricing!SpinnersHaveCalls, Pricing!Next
  PROVE  Pricing!SpinnersHaveCalls'
<1> USE DEF Pricing!Handle, Pricing!Receive, Pricing!InFlight, Pricing!SpinnersHaveCalls
<1>0. screen \in Pricing!Page
  BY DEF Pricing!TypeOK
<1>1. CASE Pricing!Reload
  <2> DEFINE new == [call |-> "getPricing", id |-> Pricing!Number]
  <2>1. calls' = calls \cup {new} /\ new.call = "getPricing"
    BY <1>1 DEF Pricing!Reload
  <2> HIDE DEF new
  <2>2. screen'.loading = TRUE /\ ~screen.loading /\ screen'.saving = screen.saving
    BY <1>0, <1>1 DEF Pricing!Reload, Pricing!Page
  <2> QED
    BY <2>1, <2>2
<1>2. ASSUME NEW prices, Pricing!EditForm(prices)
      PROVE  Pricing!SpinnersHaveCalls'
  BY <1>0, <1>2 DEF Pricing!EditForm, Pricing!Page
<1>3. CASE Pricing!Save
  <2> DEFINE new == [call |-> "updatePricing", id |-> Pricing!Number, prices |-> screen.form]
  <2>1. calls' = calls \cup {new} /\ new.call = "updatePricing"
    BY <1>3 DEF Pricing!Save
  <2> HIDE DEF new
  <2>2. screen'.saving = TRUE /\ ~screen.saving /\ screen'.loading = screen.loading
    BY <1>0, <1>3 DEF Pricing!Save, Pricing!Page
  <2> QED
    BY <2>1, <2>2
<1>4. CASE Pricing!AnswerGet
  <2>1. PICK c \in calls : /\ c.call = "getPricing" /\ calls' = calls \ {c}
                           /\ screen'.loading = FALSE /\ screen'.saving = screen.saving
    BY <1>0, <1>4 DEF Pricing!AnswerGet, Pricing!Loaded, Pricing!LoadFailed, Pricing!Page
  <2> QED
    BY <2>1
<1>5. CASE Pricing!AnswerPut
  <2>1. PICK c \in calls : /\ c.call = "updatePricing" /\ calls' = calls \ {c}
                           /\ screen'.saving = FALSE /\ screen'.loading = screen.loading
    BY <1>0, <1>5 DEF Pricing!AnswerPut, Pricing!Saved, Pricing!Page
  <2> QED
    BY <2>1
<1> QED
  BY <1>1, <1>2, <1>3, <1>4, <1>5 DEF Pricing!Next

\* The page's two flags go with the settings and the upload, whatever images come.
LEMMA QrSpinners ==
  ASSUME Qr!TypeOK, Qr!SpinnersHaveCalls, Qr!Next
  PROVE  Qr!SpinnersHaveCalls'
<1> USE DEF Qr!Handle, Qr!Receive, Qr!InFlight, Qr!SpinnersHaveCalls
<1>0. screen \in Qr!Page
  BY DEF Qr!TypeOK
<1>a. \A c, d \in calls : c.call = d.call /\ c.call # "paymentQrBlob" => c = d
  BY DEF Qr!TypeOK, Qr!GetCall, Qr!UploadCall, Qr!BlobCall
<1>1. CASE Qr!OnQrSelected
  <2> DEFINE new == [call |-> "uploadPaymentQr"]
  <2>1. calls' = calls \cup {new} /\ new.call = "uploadPaymentQr"
    BY <1>1 DEF Qr!OnQrSelected
  <2> HIDE DEF new
  <2>2. screen'.uploading = TRUE /\ screen'.loading = screen.loading
    BY <1>0, <1>1 DEF Qr!OnQrSelected, Qr!Page
  <2> QED
    BY <2>1, <2>2
<1>2. ASSUME NEW c \in calls, NEW blob, blob.call = "paymentQrBlob",
             c.call \in {"getPaymentSettings", "uploadPaymentQr"},
             calls' = calls \ {c} \/ calls' = (calls \ {c}) \cup {blob},
             IF c.call = "getPaymentSettings"
             THEN screen'.loading = FALSE /\ screen'.uploading = screen.uploading
             ELSE screen'.uploading = FALSE /\ screen'.loading = screen.loading
      PROVE  Qr!SpinnersHaveCalls'
  <2>1. \A d \in calls' : d \in calls \ {c} \/ d.call = "paymentQrBlob"
    BY <1>2
  <2>2. calls \ {c} \subseteq calls'
    BY <1>2
  <2>3. CASE c.call = "getPaymentSettings"
    <3>1. screen'.loading = FALSE /\ screen'.uploading = screen.uploading
      BY <1>2, <2>3
    <3>2. \A d \in calls' : d.call # "getPaymentSettings"
      BY <1>a, <2>1, <2>3
    <3>3. Qr!InFlight("uploadPaymentQr")' = Qr!InFlight("uploadPaymentQr")
      BY <2>1, <2>2, <2>3
    <3> QED
      BY <3>1, <3>2, <3>3
  <2>4. CASE c.call = "uploadPaymentQr"
    <3>1. screen'.uploading = FALSE /\ screen'.loading = screen.loading
      BY <1>2, <2>4
    <3>2. \A d \in calls' : d.call # "uploadPaymentQr"
      BY <1>a, <2>1, <2>4
    <3>3. Qr!InFlight("getPaymentSettings")' = Qr!InFlight("getPaymentSettings")
      BY <2>1, <2>2, <2>4
    <3> QED
      BY <3>1, <3>2, <3>3
  <2> QED
    BY <1>2, <2>3, <2>4
<1>3. ASSUME NEW n
      PROVE  Qr!LoadQr(n).call = "paymentQrBlob"
  BY DEF Qr!LoadQr
<1>5. ASSUME NEW c \in Qr!InFlight("getPaymentSettings"), NEW has_qr \in BOOLEAN,
             Qr!SettingsAnswered(c, has_qr)
      PROVE  Qr!SpinnersHaveCalls'
  <2>1. screen'.loading = FALSE /\ screen'.uploading = screen.uploading
    BY <1>0, <1>5 DEF Qr!SettingsAnswered, Qr!Page
  <2>2. calls' = calls \ {c} \/ calls' = (calls \ {c}) \cup {Qr!LoadQr(0)}
    BY <1>5 DEF Qr!SettingsAnswered
  <2> QED
    BY <1>0, <1>2, <1>3, <2>1, <2>2, c.call = "getPaymentSettings" DEF Qr!Page
<1>6. ASSUME NEW c \in Qr!InFlight("getPaymentSettings"), Qr!SettingsFailed(c)
      PROVE  Qr!SpinnersHaveCalls'
  <2>1. screen'.loading = FALSE /\ screen'.uploading = screen.uploading
    BY <1>0, <1>6 DEF Qr!SettingsFailed, Qr!Page
  <2>2. calls' = calls \ {c}
    BY <1>6 DEF Qr!SettingsFailed
  <2> QED
    BY <1>0, <1>2, <1>3, <2>1, <2>2, c.call = "getPaymentSettings" DEF Qr!Page
<1>7. ASSUME NEW c \in Qr!InFlight("uploadPaymentQr"), Qr!Uploaded(c) \/ Qr!UploadFailed(c)
      PROVE  Qr!SpinnersHaveCalls'
  <2>1. screen'.loading = screen.loading /\ screen'.uploading = FALSE
    <3>1. CASE Qr!Uploaded(c)
      BY <1>0, <3>1 DEF Qr!Uploaded, Qr!Page
    <3>2. CASE Qr!UploadFailed(c)
      BY <1>0, <3>2 DEF Qr!UploadFailed, Qr!Page
    <3> QED
      BY <1>7, <3>1, <3>2
  <2>2. calls' = calls \ {c} \/ calls' = (calls \ {c}) \cup {Qr!LoadQr(screen.sent)}
    BY <1>7 DEF Qr!Uploaded, Qr!UploadFailed
  <2> QED
    BY <1>0, <1>2, <1>3, <2>1, <2>2, c.call = "uploadPaymentQr" DEF Qr!Page
<1>4. CASE Qr!AnswerQr
  <2>1. PICK c \in calls : /\ c.call = "paymentQrBlob" /\ calls' = calls \ {c}
                           /\ screen'.uploading = screen.uploading
                           /\ screen'.loading = screen.loading
    BY <1>0, <1>4 DEF Qr!AnswerQr, Qr!QrAnswered, Qr!QrFailed, Qr!Page
  <2> QED
    BY <2>1
<1> QED
  BY <1>1, <1>4, <1>5, <1>6, <1>7 DEF Qr!Next, Qr!AnswerSettings, Qr!AnswerUpload

-----------------------------------------------------------------------------
(* The application.                                                        *)

\* The invariant of whichever page is open.
PageInv ==
  /\ screen.page = "book" => BookInv
  /\ screen.page = "edit" => EditInv
  /\ screen.page = "my-bookings" => Mine!SpinnersHaveCalls
  /\ screen.page = "payments" => Payments!DraftIsForThisRow /\ Payments!SpinnersHaveCalls
  /\ screen.page = "admin-bookings" => All!SpinnersHaveCalls
  /\ screen.page = "users" => UserList!SpinnersHaveCalls
  /\ screen.page = "roles" => Roles!SpinnersHaveCalls
  /\ screen.page = "pricing" => Pricing!SpinnersHaveCalls
  /\ screen.page = "payment-settings" => Qr!SpinnersHaveCalls

\* The page the application opens on waits for its list.
LEMMA FirstPageInv ==
  ASSUME screen = Mine!NewPage, calls = Mine!FirstCalls
  PROVE  PageInv
<1>1. screen.page = "my-bookings" /\ screen.uploadingId = NoOne
  BY DEF Mine!NewPage
<1> DEFINE first == [call |-> "mine"]
<1>2. calls = {first} /\ first.call = "mine"
  BY DEF Mine!FirstCalls
<1> HIDE DEF first
<1>3. Mine!InFlight("mine") # {}
  BY <1>2 DEF Mine!InFlight
<1> QED
  BY <1>1, <1>3 DEF PageInv, Mine!SpinnersHaveCalls

\* A page that opens waits for what it asked for, and for nothing else.
LEMMA OpenedInv ==
  ASSUME Navigate \/ OpenMine
  PROVE  PageInv'
<1> USE DEF Open
<1>1. CASE OpenMine \/ (screen' = Mine!NewPage /\ calls' = Mine!FirstCalls)
  <2>1. screen'.page = "my-bookings" /\ screen'.uploadingId = NoOne
    BY <1>1 DEF OpenMine, Mine!NewPage
  <2> DEFINE first == [call |-> "mine"]
  <2>2. calls' = {first} /\ first.call = "mine"
    BY <1>1 DEF OpenMine, Mine!FirstCalls
  <2> HIDE DEF first
  <2>3. Mine!InFlight("mine")' # {}
    BY <2>2 DEF Mine!InFlight
  <2> QED
    BY <2>1, <2>3 DEF PageInv, Mine!SpinnersHaveCalls
<1>2. CASE Open(Book!NewForm, {})
  <2>1. /\ screen'.page = "book" /\ screen'.checking = FALSE /\ screen'.loadingSeats = FALSE
        /\ screen'.submitting = FALSE /\ screen'.availability = NoInvoice
        /\ screen'.selectedSeat \notin screen'.unavailableSeats
    BY <1>2 DEF Book!NewForm
  <2>2. BookPrices' = {}
    BY <1>2 DEF BookPrices, Book!InFlight
  <2> QED
    BY <2>1, <2>2 DEF PageInv, BookInv
<1>3. CASE Open(Edit!NewForm, Edit!FirstCalls)
  <2>1. /\ screen'.page = "edit" /\ screen'.availability = NoInvoice /\ screen'.canSave = FALSE
        /\ screen'.loadingSeats = FALSE /\ screen'.saving = FALSE /\ screen'.original = NoBooking
    BY <1>3 DEF Edit!NewForm
  <2> DEFINE first == [call |-> "getOne"]
  <2>2. calls' = {first} /\ first.call = "getOne"
    BY <1>3 DEF Edit!FirstCalls
  <2> HIDE DEF first
  <2>3. EditPrices' = {} /\ Edit!InFlight("getOne")' # {}
    BY <2>2 DEF EditPrices, Edit!InFlight
  <2> QED
    BY <2>1, <2>3 DEF PageInv, EditInv, Edit!SettledInvoiceIsCurrent, Edit!CanSaveIsCurrent,
                      Edit!SpinnersHaveCalls
<1>4. CASE Open(UserList!NewPage, UserList!FirstCalls)
  <2>1. screen'.page = "users"
    BY <1>4 DEF UserList!NewPage
  <2> DEFINE first == [call |-> "list", id |-> 1, token |-> NoToken, emailPrefix |-> FALSE]
  <2>2. calls' = {first} /\ first.call = "list"
    BY <1>4 DEF UserList!FirstCalls
  <2> HIDE DEF first
  <2>3. UserList!InFlight("list")' # {}
    BY <2>2 DEF UserList!InFlight
  <2> QED
    BY <2>1, <2>3 DEF PageInv, UserList!SpinnersHaveCalls
<1>5. CASE Open(Roles!NewPage, Roles!FirstCalls)
  <2>1. screen'.page = "roles" /\ screen'.busy = FALSE
    BY <1>5 DEF Roles!NewPage
  <2>2. Roles!InFlight("grant")' = {} /\ Roles!InFlight("revoke")' = {}
    BY <1>5 DEF Roles!FirstCalls, Roles!InFlight
  <2> QED
    BY <2>1, <2>2 DEF PageInv, Roles!SpinnersHaveCalls
<1>6. CASE Open(All!NewPage, All!FirstCalls)
  <2>1. screen'.page = "admin-bookings" /\ screen'.busyId = NoOne
    BY <1>6 DEF All!NewPage
  <2> DEFINE first == [call |-> "allBookings", id |-> 1, filter |-> "ALL"]
  <2>2. calls' = {first} /\ first.call = "allBookings"
    BY <1>6 DEF All!FirstCalls
  <2> HIDE DEF first
  <2>3. All!InFlight("allBookings")' # {}
    BY <2>2 DEF All!InFlight
  <2> QED
    BY <2>1, <2>3 DEF PageInv, All!SpinnersHaveCalls
<1>7. CASE Open(Payments!NewPage, Payments!FirstCalls)
  <2>1. /\ screen'.page = "payments" /\ screen'.busyId = NoOne
        /\ \A b \in Bookings : screen'.rows[b] = NoRow
    BY <1>7 DEF Payments!NewPage
  <2> DEFINE first == [call |-> "pendingPayments", id |-> 1]
  <2>2. calls' = {first} /\ first.call = "pendingPayments"
    BY <1>7 DEF Payments!FirstCalls
  <2> HIDE DEF first
  <2>3. Payments!InFlight("pendingPayments")' # {}
    BY <2>2 DEF Payments!InFlight
  <2> QED
    BY <2>1, <2>3 DEF PageInv, Payments!SpinnersHaveCalls, Payments!DraftIsForThisRow
<1>8. CASE Open(Pricing!NewPage, Pricing!FirstCalls)
  <2>1. screen'.page = "pricing" /\ screen'.loading = TRUE /\ screen'.saving = FALSE
    BY <1>8 DEF Pricing!NewPage
  <2> DEFINE first == [call |-> "getPricing", id |-> 1]
  <2>2. calls' = {first} /\ first.call = "getPricing"
    BY <1>8 DEF Pricing!FirstCalls
  <2> HIDE DEF first
  <2>3. /\ Pricing!InFlight("getPricing")' # {} /\ Pricing!InFlight("updatePricing")' = {}
        /\ \A c, d \in calls' : c = d
    BY <2>2 DEF Pricing!InFlight
  <2> QED
    BY <2>1, <2>3 DEF PageInv, Pricing!SpinnersHaveCalls
<1>9. CASE Open(Qr!NewPage, Qr!FirstCalls)
  <2>1. screen'.page = "payment-settings" /\ screen'.loading = TRUE /\ screen'.uploading = FALSE
    BY <1>9 DEF Qr!NewPage
  <2> DEFINE first == [call |-> "getPaymentSettings"]
  <2>2. calls' = {first} /\ first.call = "getPaymentSettings"
    BY <1>9 DEF Qr!FirstCalls
  <2> HIDE DEF first
  <2>3. Qr!InFlight("getPaymentSettings")' # {} /\ Qr!InFlight("uploadPaymentQr")' = {}
    BY <2>2 DEF Qr!InFlight
  <2> QED
    BY <2>1, <2>3 DEF PageInv, Qr!SpinnersHaveCalls
<1> QED
  BY <1>1, <1>2, <1>3, <1>4, <1>5, <1>6, <1>7, <1>8, <1>9 DEF Navigate

\* Only the form of an edit reads nav: its booking has come, or the user is leaving.
LEMMA IdleInv ==
  ASSUME PageInv, UNCHANGED <<screen, calls>>,
         screen.page = "edit" /\ nav # NoPage => nav' # NoPage
  PROVE  PageInv'
<1>1. BookInv => BookInv'
  BY DEF BookInv, BookPrices, BookPriced, Book!InFlight, Book!CanSubmit, Book!SeatSelectionReady
<1>2. screen.page = "edit" /\ EditInv => EditInv'
  BY DEF EditInv, EditPrices, Edit!InFlight, Edit!Valid, Edit!SettledInvoiceIsCurrent,
         Edit!CanSaveIsCurrent, Edit!Savable, Edit!DowngradeBlocked, Edit!SpinnersHaveCalls
<1>3. /\ Payments!DraftIsForThisRow => Payments!DraftIsForThisRow'
      /\ Mine!SpinnersHaveCalls => Mine!SpinnersHaveCalls'
      /\ Payments!SpinnersHaveCalls => Payments!SpinnersHaveCalls'
      /\ All!SpinnersHaveCalls => All!SpinnersHaveCalls'
      /\ UserList!SpinnersHaveCalls => UserList!SpinnersHaveCalls'
      /\ Roles!SpinnersHaveCalls => Roles!SpinnersHaveCalls'
      /\ Pricing!SpinnersHaveCalls => Pricing!SpinnersHaveCalls'
      /\ Qr!SpinnersHaveCalls => Qr!SpinnersHaveCalls'
  BY DEF Payments!DraftIsForThisRow, Mine!SpinnersHaveCalls, Payments!SpinnersHaveCalls,
         All!SpinnersHaveCalls, UserList!SpinnersHaveCalls, Roles!SpinnersHaveCalls,
         Pricing!SpinnersHaveCalls, Qr!SpinnersHaveCalls, Mine!InFlight, Payments!InFlight,
         All!InFlight, UserList!InFlight, Roles!InFlight, Pricing!InFlight, Qr!InFlight
<1> QED
  BY <1>1, <1>2, <1>3 DEF PageInv

\* A page's own steps keep its invariant and stay on the page.
LEMMA WorkInv ==
  ASSUME TypeOK, PageInv, Work
  PROVE  PageInv'
<1>1. CASE screen.page = "book" /\ Book!Next
  BY <1>1, PageTypes, BookTypes, BookStep, NextPageNames DEF PageInv
<1>2. CASE screen.page = "edit" /\ Edit!Next
  BY <1>2, PageTypes, EditTypes, EditStep, NextPageNames DEF PageInv
<1>3. CASE screen.page = "my-bookings" /\ Mine!Next
  BY <1>3, PageTypes, MineTypes, MineSpinners, NextPageNames DEF PageInv
<1>4. CASE screen.page = "payments" /\ Payments!Next
  BY <1>4, PageTypes, PaymentsTypes, PaymentsStep, NextPageNames DEF PageInv
<1>5. CASE screen.page = "admin-bookings" /\ All!Next
  BY <1>5, PageTypes, AllTypes, AllSpinners, NextPageNames DEF PageInv
<1>6. CASE screen.page = "users" /\ UserList!Next
  BY <1>6, PageTypes, UserListTypes, UserListSpinners, NextPageNames DEF PageInv
<1>7. CASE screen.page = "roles" /\ Roles!Next
  BY <1>7, PageTypes, RolesTypes, RolesSpinners, NextPageNames DEF PageInv
<1>8. CASE screen.page = "pricing" /\ Pricing!Next
  BY <1>8, PageTypes, PricingTypes, PricingSpinners, NextPageNames DEF PageInv
<1>9. CASE screen.page = "payment-settings" /\ Qr!Next
  BY <1>9, PageTypes, QrTypes, QrSpinners, NextPageNames DEF PageInv
<1> QED
  BY <1>1, <1>2, <1>3, <1>4, <1>5, <1>6, <1>7, <1>8, <1>9 DEF Work, On

\* And so does every other step of the application.
LEMMA PageInvStep ==
  ASSUME TypeOK, PageInv, [Next]_appVars
  PROVE  PageInv'
<1>1. CASE Work
  BY <1>1, WorkInv
<1>2. ASSUME NEW page \in UserPages \cup AdminPages, FollowLink(page)
      PROVE  PageInv'
  <2>1. screen.page = "edit" => nav' # NoPage
    BY <1>2, PageAssumption DEF FollowLink, Links, UserPages
  <2> QED
    BY <1>2, <2>1, IdleInv DEF FollowLink
<1>3. CASE Navigate
  BY <1>3, OpenedInv
<1>4. CASE SentBack
  BY <1>4, OpenedInv, IdleInv DEF SentBack
<1>5. CASE LateLeave
  <2>1. screen.page = "edit" /\ nav # NoPage => nav' # NoPage
    BY <1>5, PageAssumption DEF LateLeave, UserPages
  <2> QED
    BY <1>5, <2>1, IdleInv DEF LateLeave
<1>6. CASE UNCHANGED appVars
  BY <1>6, IdleInv DEF appVars, vars
<1> QED
  BY <1>1, <1>2, <1>3, <1>4, <1>5, <1>6 DEF Next

\* On every reachable screen the open page's invariant holds.
LEMMA ClientInv == Spec => []PageInv
<1>1. Init => PageInv
  BY FirstPageInv DEF Init
<1>2. TypeOK /\ PageInv /\ [Next]_appVars => PageInv'
  BY PageInvStep
<1> QED
  BY <1>1, <1>2, ClientTypes, PTL DEF Spec

\* Confirm is offered only for the seat and the window whose price is on screen.
THEOREM ClientConfirms == Spec => []ConfirmsWhatWasPriced
<1>1. PageInv => ConfirmsWhatWasPriced
  BY DEF PageInv, BookInv, BookPriced, ConfirmsWhatWasPriced, Book!ConfirmsWhatWasPriced,
         Book!CanConfirm
<1> QED
  BY <1>1, ClientInv, PTL

\* The booking form never keeps a seat selected that its map shows as taken.
THEOREM ClientSeats == Spec => []SelectedSeatNotTaken
<1>1. PageInv => SelectedSeatNotTaken
  BY DEF PageInv, BookInv, SelectedSeatNotTaken, Book!SelectedSeatNotTaken
<1> QED
  BY <1>1, ClientInv, PTL

\* Without a price under way, the edit form shows the price of what Save sends.
THEOREM ClientInvoices == Spec => []SettledInvoiceIsCurrent
<1>1. PageInv => SettledInvoiceIsCurrent
  BY DEF PageInv, EditInv, SettledInvoiceIsCurrent
<1> QED
  BY <1>1, ClientInv, PTL

\* The memoized canSave of the edit form is never true of a form that must not be saved.
THEOREM ClientSaves == Spec => []CanSaveIsCurrent
<1>1. PageInv => CanSaveIsCurrent
  BY DEF PageInv, EditInv, CanSaveIsCurrent
<1> QED
  BY <1>1, ClientInv, PTL

\* A typed amount belongs to the due that its row shows.
THEOREM ClientDrafts == Spec => []DraftIsForThisRow
<1>1. PageInv => DraftIsForThisRow
  BY DEF PageInv, DraftIsForThisRow
<1> QED
  BY <1>1, ClientInv, PTL

\* What stops a spinner of the open page, or frees its buttons, is in flight.
THEOREM ClientSpinners == Spec => []SpinnersHaveCalls
<1>1. BookInv => Book!SpinnersHaveCalls
  BY DEF BookInv, BookPrices, Book!SpinnersHaveCalls
<1>2. EditInv => Edit!SpinnersHaveCalls
  BY DEF EditInv
<1>3. PageInv => SpinnersHaveCalls
  BY <1>1, <1>2 DEF PageInv, SpinnersHaveCalls
<1> QED
  BY <1>3, ClientInv, PTL
=============================================================================
