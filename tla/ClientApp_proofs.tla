-------------------------- MODULE ClientApp_proofs --------------------------
(***************************************************************************)
(* Every field of every page keeps its type, whatever the user, the router *)
(* and the server do.  One lemma per page says that its handlers and       *)
(* callbacks keep its type; the theorem at the end puts them under the     *)
(* router.                                                                 *)
(***************************************************************************)
EXTENDS ClientApp, Sequences, TLAPS

-----------------------------------------------------------------------------
(* The booking form.                                                       *)

BookCalls == Book!MapCall \cup Book!PriceCall \cup Book!CreateCall

\* A handler that leaves a typed form and sends typed calls keeps the type.
LEMMA BookHandles ==
  ASSUME Book!TypeOK, NEW s \in Book!Form, NEW sent \in SUBSET BookCalls, Book!Handle(s, sent)
  PROVE  Book!TypeOK'
BY DEF Book!TypeOK, Book!Handle, BookCalls

\* So does a callback that stays on the page,
LEMMA BookReceives ==
  ASSUME Book!TypeOK, NEW c, NEW s \in Book!Form, NEW sent \in SUBSET BookCalls,
         Book!Receive(c, s, sent)
  PROVE  Book!TypeOK'
BY DEF Book!TypeOK, Book!Receive, BookCalls

\* and one that leaves it.
LEMMA BookLeaves ==
  ASSUME Book!TypeOK, NEW c, NEW s \in Book!Form, NEW page, Book!ReceiveAndLeave(c, s, page)
  PROVE  Book!TypeOK'
BY DEF Book!TypeOK, Book!ReceiveAndLeave

\* The seat map effect.
LEMMA BookAskMap ==
  ASSUME NEW s \in Book!Form
  PROVE  Book!AskMap(s) \in Book!Form /\ Book!MapCalls(s) \subseteq BookCalls
<1>1. ASSUME NEW n \in Nat PROVE [s EXCEPT !.loadingSeats = TRUE, !.maps = n] \in Book!Form
  BY DEF Book!Form
<1>4. s.maps + 1 \in Nat
  BY DEF Book!Form
<1>2. [s EXCEPT !.unavailableSeats = {}] \in Book!Form
  BY DEF Book!Form
<1>3. Book!MapCalls(s) \subseteq Book!MapCall
  <2>1. s.maps \in Nat /\ s.window \in Windows \cup {NoWindow}
    BY DEF Book!Form
  <2> SUFFICES ASSUME NEW w \in {s.window} \ {NoWindow}
               PROVE  [call |-> "seatsAvailability", id |-> s.maps + 1, window |-> w] \in Book!MapCall
    BY DEF Book!MapCalls
  <2> QED
    BY <2>1 DEF Book!MapCall
<1> QED
  BY <1>1, <1>2, <1>3, <1>4 DEF Book!AskMap, BookCalls

\* The price effect.
LEMMA BookAskPrice ==
  ASSUME NEW s \in Book!Form, NEW keep \in BOOLEAN
  PROVE  Book!AskPrice(s) \in Book!Form /\ Book!PriceCalls(s, keep) \subseteq BookCalls
<1>1. ASSUME NEW n \in Nat PROVE [s EXCEPT !.priceReqId = n, !.checking = TRUE] \in Book!Form
  BY DEF Book!Form
<1>6. s.priceReqId + 1 \in Nat
  BY DEF Book!Form
<1>2. [s EXCEPT !.availability = NoInvoice] \in Book!Form
  BY DEF Book!Form
<1>3. Book!AskPrice(s) \in Book!Form
  BY <1>1, <1>2, <1>6 DEF Book!AskPrice
<1>4. ASSUME Book!CanSubmit(s)
      PROVE  s.priceReqId \in Nat /\ s.selectedSeat \in Seats /\ s.window \in Windows
  BY <1>4 DEF Book!Form, Book!CanSubmit, Book!SeatSelectionReady
<1>5. Book!PriceCalls(s, keep) \subseteq Book!PriceCall
  <2> SUFFICES ASSUME Book!CanSubmit(s)
               PROVE  [call |-> "checkAvailability", id |-> s.priceReqId + 1,
                       seat |-> s.selectedSeat, window |-> s.window, keep |-> keep] \in Book!PriceCall
    BY DEF Book!PriceCalls
  <2> QED
    BY <1>4 DEF Book!PriceCall
<1> QED
  BY <1>3, <1>5 DEF BookCalls

\* Every event and every answer keeps the type of the booking form.
LEMMA BookTypes ==
  ASSUME Book!TypeOK, Book!Next
  PROVE  Book!TypeOK'
<1>0. screen \in Book!Form
  BY DEF Book!TypeOK
<1>1. ASSUME NEW w \in Windows \cup {NoWindow}, Book!ChangeWindow(w)
      PROVE  Book!TypeOK'
  <2> DEFINE s == [screen EXCEPT !.window = w]
  <2>1. s \in Book!Form
    BY <1>0 DEF Book!Form
  <2>2. Book!AskMap(Book!AskPrice(s)) \in Book!Form
    BY <2>1, BookAskMap, BookAskPrice
  <2>3. Book!MapCalls(s) \cup Book!PriceCalls(s, FALSE) \subseteq BookCalls
    BY <2>1, BookAskMap, BookAskPrice
  <2> QED
    BY <1>1, <2>2, <2>3, BookHandles DEF Book!ChangeWindow
<1>2. ASSUME NEW seat \in Seats, Book!OnSeatPicked(seat)
      PROVE  Book!TypeOK'
  <2> DEFINE s == [screen EXCEPT !.selectedSeat = seat, !.availability = NoInvoice]
  <2>1. s \in Book!Form
    BY <1>0 DEF Book!Form
  <2>2. Book!AskPrice(s) \in Book!Form /\ Book!PriceCalls(s, FALSE) \subseteq BookCalls
    BY <2>1, BookAskPrice
  <2>3. Book!Handle(s, {}) \/ Book!Handle(Book!AskPrice(s), Book!PriceCalls(s, FALSE))
    BY <1>2 DEF Book!OnSeatPicked
  <2> HIDE DEF s
  <2> QED
    BY <2>1, <2>2, <2>3, BookHandles
<1>3. CASE Book!RefreshPrice
  BY <1>0, <1>3, BookAskPrice, BookHandles DEF Book!RefreshPrice
<1>4. CASE Book!Submit
  <2>1. [screen EXCEPT !.submitting = TRUE] \in Book!Form
    BY <1>0 DEF Book!Form
  <2>2. {[call |-> "create", seat |-> screen.selectedSeat, window |-> screen.window]} \subseteq BookCalls
    BY <1>0, <1>4 DEF Book!Form, Book!Submit, Book!CanConfirm, Book!CanSubmit, Book!SeatSelectionReady, BookCalls, Book!CreateCall
  <2> QED
    BY <1>4, <2>1, <2>2, BookHandles DEF Book!Submit
<1>5. ASSUME NEW c, NEW taken \in SUBSET Seats, Book!SeatsAnswered(c, taken)
      PROVE Book!TypeOK'
  <2> DEFINE s == [screen EXCEPT !.unavailableSeats = taken, !.loadingSeats = FALSE]
  <2>1. s \in Book!Form
    BY <1>0 DEF Book!Form
  <2>2. [s EXCEPT !.selectedSeat = NoSeat] \in Book!Form
    BY <2>1 DEF Book!Form
  <2>3. Book!AskPrice([s EXCEPT !.selectedSeat = NoSeat]) \in Book!Form
    BY <2>2, BookAskPrice
  <2> HIDE DEF s
  <2> QED
    BY <1>5, <2>1, <2>3, BookReceives DEF Book!SeatsAnswered, s
<1>6. ASSUME NEW c, Book!SeatsFailed(c)
      PROVE Book!TypeOK'
  <2>1. [screen EXCEPT !.loadingSeats = FALSE, !.unavailableSeats = {}] \in Book!Form
    BY <1>0 DEF Book!Form
  <2> QED BY <1>6, <2>1, BookReceives DEF Book!SeatsFailed
<1>7. ASSUME NEW c \in Book!InFlight("checkAvailability"), NEW available \in BOOLEAN,
             Book!PriceAnswered(c, available)
      PROVE Book!TypeOK'
  <2> DEFINE i == [seat |-> c.seat, window |-> c.window, available |-> available]
  <2>1. i \in Book!Invoice
    BY DEF Book!TypeOK, Book!InFlight, Book!PriceCall, Book!MapCall, Book!CreateCall, Book!Invoice
  <2>2. [screen EXCEPT !.availability = i, !.checking = FALSE] \in Book!Form
    BY <1>0, <2>1 DEF Book!Form
  <2> QED BY <1>0, <1>7, <2>2, BookReceives DEF Book!PriceAnswered
<1>8. ASSUME NEW c, Book!PriceFailed(c)
      PROVE Book!TypeOK'
  <2> DEFINE s == [screen EXCEPT !.availability = IF c.keep THEN @ ELSE NoInvoice, !.checking = FALSE]
  <2>1. s \in Book!Form
    BY <1>0 DEF Book!Form
  <2> QED
    BY <1>0, <1>8, <2>1, BookReceives DEF Book!PriceFailed
<1>9. ASSUME NEW c, Book!Created(c) \/ Book!CreateFailed(c)
      PROVE Book!TypeOK'
  <2>1. [screen EXCEPT !.submitting = FALSE] \in Book!Form
    BY <1>0 DEF Book!Form
  <2> QED
    BY <1>9, <2>1, BookReceives, BookLeaves DEF Book!Created, Book!CreateFailed
<1> QED
  BY <1>1, <1>2, <1>3, <1>4, <1>5, <1>6, <1>7, <1>8, <1>9
     DEF Book!Next, Book!AnswerMap, Book!AnswerPrice, Book!AnswerCreate

-----------------------------------------------------------------------------
(* The form of an edit.                                                    *)

EditCallTypes == Edit!GetCall \cup Edit!MapCall \cup Edit!PriceCall \cup Edit!UpdateCall

\* A step that leaves a typed form and sends typed calls keeps the type.
LEMMA EditSends ==
  ASSUME Edit!TypeOK, screen' \in Edit!Form,
         NEW sent \in SUBSET EditCallTypes, calls' \subseteq calls \cup sent
  PROVE  Edit!TypeOK'
BY DEF Edit!TypeOK, EditCallTypes

\* Change detection computes canSave and nothing else.
LEMMA EditRender ==
  ASSUME NEW s \in Edit!Form
  PROVE  Edit!Render(s) \in Edit!Form
<1>1. ASSUME NEW t \in BOOLEAN, NEW v \in BOOLEAN
      PROVE  [s EXCEPT !.tracks = t, !.canSave = v] \in Edit!Form
  BY DEF Edit!Form
<1>2. Edit!Valid(s) \in BOOLEAN /\ Edit!Savable(s) \in BOOLEAN
  BY DEF Edit!Valid, Edit!Savable
<1> QED
  BY <1>1, <1>2 DEF Edit!Render

\* The seat map effect.
LEMMA EditAskMap ==
  ASSUME NEW s \in Edit!Form
  PROVE  Edit!AskMap(s) \in Edit!Form /\ Edit!MapCalls(s) \subseteq EditCallTypes
<1>1. ASSUME NEW n \in Nat
      PROVE  [s EXCEPT !.loadingSeats = TRUE, !.maps = n] \in Edit!Form
  BY DEF Edit!Form
<1>2. [s EXCEPT !.unavailableSeats = {}] \in Edit!Form
  BY DEF Edit!Form
<1>3. s.maps \in Nat /\ s.maps + 1 \in Nat
  BY DEF Edit!Form
<1>4. Edit!AskMap(s) \in Edit!Form
  BY <1>1, <1>2, <1>3 DEF Edit!AskMap
<1>5. [call |-> "seatsAvailability", id |-> s.maps + 1] \in Edit!MapCall
  BY <1>3 DEF Edit!MapCall
<1> QED
  BY <1>4, <1>5 DEF Edit!MapCalls, EditCallTypes

\* The price effect.
LEMMA EditAskPrice ==
  ASSUME NEW s \in Edit!Form
  PROVE  Edit!AskPrice(s) \in Edit!Form /\ Edit!PriceCalls(s) \subseteq EditCallTypes
<1>1. ASSUME NEW n \in Nat
      PROVE  [s EXCEPT !.priceReqId = n] \in Edit!Form
  BY DEF Edit!Form
<1>2. [s EXCEPT !.availability = NoInvoice] \in Edit!Form
  BY DEF Edit!Form
<1>3. s.priceReqId \in Nat /\ s.priceReqId + 1 \in Nat
  BY DEF Edit!Form
<1>4. Edit!AskPrice(s) \in Edit!Form
  BY <1>1, <1>2, <1>3 DEF Edit!AskPrice
<1>5. ASSUME Edit!Valid(s), s.selectedSeat # NoSeat
      PROVE  [call |-> "checkAvailability", id |-> s.priceReqId + 1,
              seat |-> s.selectedSeat, window |-> s.window] \in Edit!PriceCall
  <2>1. s.selectedSeat \in Seats /\ s.window \in Windows
    BY <1>5 DEF Edit!Form, Edit!Valid
  <2> QED
    BY <1>3, <2>1 DEF Edit!PriceCall
<1> QED
  BY <1>4, <1>5 DEF Edit!PriceCalls, EditCallTypes

\* Every event and every answer keeps the type of the form of an edit.
LEMMA EditTypes ==
  ASSUME Edit!TypeOK, Edit!Next
  PROVE  Edit!TypeOK'
<1> USE DEF Edit!Handle, Edit!Receive, Edit!ReceiveAndLeave
<1>0. screen \in Edit!Form
  BY DEF Edit!TypeOK
<1>1. ASSUME NEW w \in Windows \cup {NoWindow}, Edit!ChangeWindow(w)
      PROVE  Edit!TypeOK'
  <2> DEFINE s == [screen EXCEPT !.window = w]
  <2>1. s \in Edit!Form
    BY <1>0 DEF Edit!Form
  <2>2. Edit!Render(Edit!AskMap(Edit!AskPrice(s))) \in Edit!Form
    BY <2>1, EditAskMap, EditAskPrice, EditRender
  <2>3. Edit!MapCalls(s) \cup Edit!PriceCalls(s) \in SUBSET EditCallTypes
    BY <2>1, EditAskMap, EditAskPrice
  <2> QED
    BY <1>1, <2>2, <2>3, EditSends DEF Edit!ChangeWindow
<1>2. ASSUME NEW seat \in Seats, Edit!OnSeatPicked(seat)
      PROVE  Edit!TypeOK'
  <2> DEFINE s == [screen EXCEPT !.selectedSeat = seat, !.availability = NoInvoice]
  <2>1. s \in Edit!Form
    BY <1>0 DEF Edit!Form
  <2>2. /\ Edit!Render(s) \in Edit!Form /\ Edit!Render(Edit!AskPrice(s)) \in Edit!Form
        /\ Edit!PriceCalls(s) \in SUBSET EditCallTypes
    BY <2>1, EditAskPrice, EditRender
  <2>3. \/ screen' = Edit!Render(s) /\ calls' = calls
        \/ screen' = Edit!Render(Edit!AskPrice(s)) /\ calls' = calls \cup Edit!PriceCalls(s)
    BY <1>2 DEF Edit!OnSeatPicked
  <2> HIDE DEF s
  <2> QED
    BY <2>2, <2>3, EditSends
<1>3. CASE Edit!Save
  <2>1. [screen EXCEPT !.saving = TRUE] \in Edit!Form
    BY <1>0 DEF Edit!Form
  <2>2. [call |-> "update", seat |-> screen.selectedSeat, window |-> screen.window]
          \in EditCallTypes
    BY <1>0, <1>3 DEF Edit!Form, Edit!Save, Edit!Valid, EditCallTypes, Edit!UpdateCall
  <2> QED
    BY <1>3, <2>1, <2>2, EditSends DEF Edit!Save
<1>4. ASSUME NEW c, NEW b \in Edit!Booking, Edit!BookingLoaded(c, b)
      PROVE  Edit!TypeOK'
  <2> DEFINE s == Edit!Prefill(b)
             r == [screen EXCEPT !.original = b]
  <2>1. s \in Edit!Form /\ r \in Edit!Form
    BY <1>0 DEF Edit!Prefill, Edit!Form, Edit!Booking
  <2>2. /\ Edit!Render(r) \in Edit!Form
        /\ Edit!Render(Edit!AskMap(Edit!AskPrice(s))) \in Edit!Form
        /\ Edit!MapCalls(s) \cup Edit!PriceCalls(s) \in SUBSET EditCallTypes
    BY <2>1, EditAskMap, EditAskPrice, EditRender
  <2>3. \/ screen' = Edit!Render(r) /\ calls' = calls \ {c}
        \/ /\ screen' = Edit!Render(Edit!AskMap(Edit!AskPrice(s)))
           /\ calls' = (calls \ {c}) \cup (Edit!MapCalls(s) \cup Edit!PriceCalls(s))
    BY <1>4 DEF Edit!BookingLoaded
  <2> HIDE DEF s, r
  <2> QED
    BY <2>2, <2>3, EditSends
<1>5. ASSUME NEW c, \/ Edit!BookingFailed(c) \/ Edit!SeatsFailed(c)
                    \/ Edit!Updated(c) \/ Edit!UpdateFailed(c)
      PROVE  Edit!TypeOK'
  <2>1. [screen EXCEPT !.loading = FALSE] \in Edit!Form
    BY <1>0 DEF Edit!Form
  <2>2. [screen EXCEPT !.saving = FALSE] \in Edit!Form
    BY <1>0 DEF Edit!Form
  <2>3. [screen EXCEPT !.unavailableSeats = {}, !.loadingSeats = FALSE] \in Edit!Form
    BY <1>0 DEF Edit!Form
  <2>4. screen' \in Edit!Form /\ calls' \subseteq calls
    BY <1>5, <2>1, <2>2, <2>3
       DEF Edit!BookingFailed, Edit!SeatsFailed, Edit!Updated, Edit!UpdateFailed
  <2> QED
    BY <2>4, EditSends
<1>6. ASSUME NEW c, NEW taken \in SUBSET Seats, Edit!SeatsAnswered(c, taken)
      PROVE  Edit!TypeOK'
  <2>1. [screen EXCEPT !.unavailableSeats = taken \ {screen.original.seat},
                       !.loadingSeats = FALSE] \in Edit!Form
    BY <1>0 DEF Edit!Form
  <2> QED
    BY <1>6, <2>1, EditSends DEF Edit!SeatsAnswered
<1>7. ASSUME NEW c \in Edit!InFlight("checkAvailability"), NEW available \in BOOLEAN,
             NEW cheaper \in BOOLEAN, Edit!PriceAnswered(c, available, cheaper)
      PROVE  Edit!TypeOK'
  <2> DEFINE i == [seat |-> c.seat, window |-> c.window,
                   available |-> available, cheaper |-> cheaper]
  <2>1. i \in Edit!Invoice
    BY DEF Edit!TypeOK, Edit!InFlight, Edit!GetCall, Edit!MapCall, Edit!PriceCall,
           Edit!UpdateCall, Edit!Invoice
  <2>2. [screen EXCEPT !.availability = i] \in Edit!Form
    BY <1>0, <2>1 DEF Edit!Form
  <2>3. Edit!Render([screen EXCEPT !.availability = i]) \in Edit!Form
    BY <2>2, EditRender
  <2> QED
    BY <1>0, <1>7, <2>3, EditSends DEF Edit!PriceAnswered
<1>8. ASSUME NEW c, Edit!PriceFailed(c)
      PROVE  Edit!TypeOK'
  <2>1. [screen EXCEPT !.availability = NoInvoice] \in Edit!Form
    BY <1>0 DEF Edit!Form
  <2>2. Edit!Render([screen EXCEPT !.availability = NoInvoice]) \in Edit!Form
    BY <2>1, EditRender
  <2> QED
    BY <1>0, <1>8, <2>2, EditSends DEF Edit!PriceFailed
<1> QED
  BY <1>1, <1>2, <1>3, <1>4, <1>5, <1>6, <1>7, <1>8
     DEF Edit!Next, Edit!AnswerBooking, Edit!AnswerMap, Edit!AnswerPrice, Edit!AnswerUpdate

-----------------------------------------------------------------------------
(* The tables and the other admin pages.                                   *)

\* The user's bookings keep their type, whatever is uploaded and answered.
LEMMA MineTypes ==
  ASSUME Mine!TypeOK, Mine!Next
  PROVE  Mine!TypeOK'
<1> USE DEF Mine!Handle, Mine!Receive
<1>0. screen \in Mine!Page /\ calls \subseteq Mine!ReadCall \cup Mine!UploadCall
  BY DEF Mine!TypeOK
<1>a. ASSUME screen' \in Mine!Page, NEW sent \in SUBSET (Mine!ReadCall \cup Mine!UploadCall),
             calls' \subseteq calls \cup sent
      PROVE  Mine!TypeOK'
  BY <1>0, <1>a DEF Mine!TypeOK
<1>b. {[call |-> "paymentSettings"], [call |-> "paymentQrBlob"]} \subseteq Mine!ReadCall
  BY DEF Mine!ReadCall
<1>1. ASSUME NEW b \in Bookings, Mine!Upload(b)
      PROVE  Mine!TypeOK'
  <2>1. ASSUME NEW n \in Nat
        PROVE  /\ [screen EXCEPT !.uploadingId = b, !.sent = n] \in Mine!Page
               /\ [call |-> "uploadPaymentProof", id |-> n, booking |-> b] \in Mine!UploadCall
    BY <1>0 DEF Mine!Page, Mine!UploadCall
  <2>2. screen.sent + 1 \in Nat
    BY <1>0 DEF Mine!Page
  <2> QED
    BY <1>1, <1>a, <2>1, <2>2 DEF Mine!Upload
<1>2. CASE Mine!EditBooking
  BY <1>2 DEF Mine!EditBooking, Mine!TypeOK
<1>3. ASSUME NEW c, NEW rows \in [Bookings -> Mine!BookingStatus \cup {NoRow}],
             Mine!Listed(c, rows)
      PROVE  Mine!TypeOK'
  <2>1. [screen EXCEPT !.rows = rows, !.loading = FALSE] \in Mine!Page
    BY <1>0 DEF Mine!Page
  <2> QED
    BY <1>3, <1>a, <1>b, <2>1 DEF Mine!Listed
<1>4. ASSUME NEW c, \/ Mine!ListFailed(c) \/ Mine!SettingsFailed(c)
                    \/ Mine!QrAnswered(c) \/ Mine!QrFailed(c) \/ Mine!UploadFailed(c)
      PROVE  Mine!TypeOK'
  <2>1. /\ [screen EXCEPT !.loading = FALSE] \in Mine!Page
        /\ [screen EXCEPT !.uploadingId = NoOne] \in Mine!Page
        /\ \A shown \in BOOLEAN : [screen EXCEPT !.qrUrl = shown] \in Mine!Page
    BY <1>0 DEF Mine!Page
  <2>2. screen' \in Mine!Page /\ calls' \subseteq calls
    BY <1>0, <1>4, <2>1 DEF Mine!ListFailed, Mine!SettingsFailed, Mine!QrAnswered,
                            Mine!QrFailed, Mine!UploadFailed
  <2> QED
    BY <1>a, <2>2
<1>5. ASSUME NEW c, NEW has_qr \in BOOLEAN, Mine!SettingsAnswered(c, has_qr)
      PROVE  Mine!TypeOK'
  <2>1. [screen EXCEPT !.settings = has_qr] \in Mine!Page
    BY <1>0 DEF Mine!Page
  <2> QED
    BY <1>5, <1>a, <1>b, <2>1 DEF Mine!SettingsAnswered
<1>6. ASSUME NEW c \in Mine!InFlight("uploadPaymentProof"), Mine!Uploaded(c)
      PROVE  Mine!TypeOK'
  <2>1. c.booking \in Bookings
    BY <1>0 DEF Mine!InFlight, Mine!ReadCall, Mine!UploadCall
  <2>2. ASSUME NEW st \in Mine!BookingStatus \cup {NoRow}
        PROVE  [screen EXCEPT !.uploadingId = NoOne, !.rows[c.booking] = st] \in Mine!Page
    BY <1>0, <2>1 DEF Mine!Page
  <2> QED
    BY <1>6, <1>a, <2>2 DEF Mine!Uploaded, Mine!BookingStatus
<1> QED
  BY <1>1, <1>2, <1>3, <1>4, <1>5, <1>6
     DEF Mine!Next, Mine!AnswerList, Mine!AnswerSettings, Mine!AnswerQr, Mine!AnswerUpload

\* The payment queue keeps its type.
LEMMA PaymentsTypes ==
  ASSUME Payments!TypeOK, Payments!Next
  PROVE  Payments!TypeOK'
<1> USE DEF Payments!Handle, Payments!Receive
<1> DEFINE Calls == Payments!ListCall \cup Payments!ApproveCall \cup Payments!RejectCall
<1>0. screen \in Payments!Page /\ calls \subseteq Calls
  BY DEF Payments!TypeOK
<1>a. ASSUME screen' \in Payments!Page, NEW sent \in SUBSET Calls, calls' \subseteq calls \cup sent
      PROVE  Payments!TypeOK'
  BY <1>0, <1>a DEF Payments!TypeOK
<1>b. screen.sent + 1 \in Nat
  BY <1>0 DEF Payments!Page
<1>1. CASE Payments!Reload
  <2>1. ASSUME NEW n \in Nat
        PROVE  /\ [screen EXCEPT !.loading = TRUE, !.sent = n] \in Payments!Page
               /\ [call |-> "pendingPayments", id |-> n] \in Payments!ListCall
    BY <1>0 DEF Payments!Page, Payments!ListCall
  <2> QED
    BY <1>1, <1>a, <1>b, <2>1 DEF Payments!Reload, Payments!Number
<1>2. ASSUME NEW b \in Bookings, NEW amount \in Amounts \cup {0}, Payments!SetAmount(b, amount)
      PROVE  Payments!TypeOK'
  <2>1. screen.rows[b] \in Amounts
    BY <1>0, <1>2 DEF Payments!Page, Payments!SetAmount
  <2>2. [amount |-> amount, due |-> screen.rows[b]] \in Payments!Draft
    BY <2>1 DEF Payments!Draft
  <2>3. [screen EXCEPT !.amountDrafts[b] = [amount |-> amount, due |-> screen.rows[b]]]
          \in Payments!Page
    BY <1>0, <2>2 DEF Payments!Page
  <2> QED
    BY <1>2, <1>a, <2>3 DEF Payments!SetAmount
<1>c. ASSUME NEW b \in Bookings, Payments!ClearAmount(b)
      PROVE  Payments!TypeOK'
  <2>1. [screen EXCEPT !.amountDrafts[b] = NoDraft] \in Payments!Page
    BY <1>0 DEF Payments!Page
  <2> QED
    BY <1>c, <1>a, <2>1 DEF Payments!ClearAmount
<1>3. ASSUME NEW b \in Bookings, Payments!Approve(b)
      PROVE  Payments!TypeOK'
  <2>1. ASSUME NEW n \in Nat, NEW a \in Amounts \cup {NoAmount}
        PROVE  /\ [screen EXCEPT !.busyId = b, !.sent = n] \in Payments!Page
               /\ [call |-> "approvePayment", id |-> n, booking |-> b, amount |-> a]
                    \in Payments!ApproveCall
    BY <1>0 DEF Payments!Page, Payments!ApproveCall
  <2> DEFINE a == Payments!AmountSent(b)
  <2>3. a \in Amounts \cup {NoAmount}
    <3>1. CASE screen.amountDrafts[b] = NoDraft
      BY <3>1 DEF Payments!AmountSent
    <3>2. CASE screen.amountDrafts[b] # NoDraft
      <4>1. screen.amountDrafts[b] \in Payments!Draft
        BY <1>0, <3>2 DEF Payments!Page
      <4>2. screen.amountDrafts[b].amount > 0
        BY <1>3, <3>2 DEF Payments!Approve, Payments!AmountValid, Payments!AmountFor
      <4>3. screen.amountDrafts[b].amount \in Amounts
        BY <4>1, <4>2 DEF Payments!Draft
      <4> QED
        BY <4>3 DEF Payments!AmountSent
    <3> QED
      BY <3>1, <3>2
  <2>4. /\ screen' = [screen EXCEPT !.busyId = b, !.sent = screen.sent + 1]
        /\ calls' = calls \cup {[call |-> "approvePayment", id |-> screen.sent + 1,
                                 booking |-> b, amount |-> a]}
    BY <1>3 DEF Payments!Approve, Payments!Number
  <2> HIDE DEF a
  <2>5. screen' \in Payments!Page
    BY <1>b, <2>1, <2>3, <2>4
  <2>6. [call |-> "approvePayment", id |-> screen.sent + 1, booking |-> b, amount |-> a]
          \in Payments!ApproveCall
    BY <1>b, <2>1, <2>3
  <2> QED
    BY <1>a, <2>4, <2>5, <2>6
<1>4. ASSUME NEW b \in Bookings, Payments!Reject(b)
      PROVE  Payments!TypeOK'
  <2>1. ASSUME NEW n \in Nat
        PROVE  /\ [screen EXCEPT !.busyId = b, !.sent = n] \in Payments!Page
               /\ [call |-> "rejectPayment", id |-> n, booking |-> b] \in Payments!RejectCall
    BY <1>0 DEF Payments!Page, Payments!RejectCall
  <2> QED
    BY <1>4, <1>a, <1>b, <2>1 DEF Payments!Reject, Payments!Number
<1>5. ASSUME NEW c, NEW rows \in [Bookings -> Amounts \cup {NoRow}], Payments!Listed(c, rows)
      PROVE  Payments!TypeOK'
  <2>1. Payments!NoDrafts \in [Bookings -> Payments!Draft \cup {NoDraft}]
    BY DEF Payments!NoDrafts
  <2>2. [screen EXCEPT !.rows = rows, !.amountDrafts = Payments!NoDrafts, !.loading = FALSE]
          \in Payments!Page
    BY <1>0, <2>1 DEF Payments!Page
  <2> QED
    BY <1>5, <1>a, <2>2 DEF Payments!Listed
<1>6. ASSUME NEW c, Payments!ListFailed(c) \/ Payments!SettleFailed(c)
      PROVE  Payments!TypeOK'
  <2>1. /\ [screen EXCEPT !.loading = FALSE] \in Payments!Page
        /\ [screen EXCEPT !.busyId = NoOne] \in Payments!Page
    BY <1>0 DEF Payments!Page
  <2>2. screen' \in Payments!Page /\ calls' \subseteq calls
    BY <1>6, <2>1 DEF Payments!ListFailed, Payments!SettleFailed
  <2> QED
    BY <1>a, <2>2
<1>7. ASSUME NEW c \in Payments!InFlight("approvePayment") \cup Payments!InFlight("rejectPayment"),
             Payments!Settled(c)
      PROVE  Payments!TypeOK'
  <2>1. c.booking \in Bookings
    BY <1>0 DEF Payments!InFlight, Payments!ListCall, Payments!ApproveCall, Payments!RejectCall
  <2>2. [screen EXCEPT !.busyId = NoOne, !.rows[c.booking] = NoRow] \in Payments!Page
    BY <1>0, <2>1 DEF Payments!Page
  <2> QED
    BY <1>7, <1>a, <2>2 DEF Payments!Settled
<1> QED
  BY <1>1, <1>2, <1>c, <1>3, <1>4, <1>5, <1>6, <1>7
     DEF Payments!Next, Payments!AnswerList, Payments!AnswerApprove, Payments!AnswerReject

\* The list of all bookings keeps its type.
LEMMA AllTypes ==
  ASSUME All!TypeOK, All!Next
  PROVE  All!TypeOK'
<1> USE DEF All!Handle, All!Receive
<1> DEFINE Calls == All!ListCall \cup All!SettleCall
<1>0. screen \in All!Page /\ calls \subseteq Calls
  BY DEF All!TypeOK
<1>a. ASSUME screen' \in All!Page, NEW sent \in SUBSET Calls, calls' \subseteq calls \cup sent
      PROVE  All!TypeOK'
  BY <1>0, <1>a DEF All!TypeOK
<1>b. screen.sent + 1 \in Nat
  BY <1>0 DEF All!Page
<1>c. ASSUME NEW s \in All!Page
      PROVE  All!Filtered(s) \in All!Page
  <2>1. ASSUME NEW shown \in SUBSET Bookings
        PROVE  [s EXCEPT !.filtered = shown] \in All!Page
    BY DEF All!Page
  <2> QED
    BY <2>1 DEF All!Filtered
<1>1. ASSUME NEW filter \in All!StatusFilter, All!Reload(filter)
      PROVE  All!TypeOK'
  <2>1. ASSUME NEW n \in Nat
        PROVE  /\ [screen EXCEPT !.statusFilter = filter, !.loading = TRUE, !.sent = n] \in All!Page
               /\ [call |-> "allBookings", id |-> n, filter |-> filter] \in All!ListCall
    BY <1>0 DEF All!Page, All!ListCall
  <2> QED
    BY <1>1, <1>a, <1>b, <2>1 DEF All!Reload, All!Number
<1>2. CASE All!Search
  <2>1. [screen EXCEPT !.searchTerm = ~@] \in All!Page
    BY <1>0 DEF All!Page
  <2> QED
    BY <1>2, <1>a, <2>1 DEF All!Search
<1>3. ASSUME NEW b \in Bookings, NEW method \in {"approvePayment", "rejectPayment"},
             All!Settle(method, b)
      PROVE  All!TypeOK'
  <2>1. ASSUME NEW n \in Nat
        PROVE  /\ [screen EXCEPT !.busyId = b, !.sent = n] \in All!Page
               /\ [call |-> method, id |-> n, booking |-> b] \in All!SettleCall
    BY <1>0 DEF All!Page, All!SettleCall
  <2> QED
    BY <1>3, <1>a, <1>b, <2>1 DEF All!Settle, All!Number
<1>4. ASSUME NEW c \in All!InFlight("allBookings"), NEW rows \in All!Answers(c), All!Listed(c, rows)
      PROVE  All!TypeOK'
  <2>1. c.filter \in All!StatusFilter
    BY <1>0 DEF All!InFlight, All!ListCall, All!SettleCall
  <2>2. rows \in [Bookings -> All!BookingStatus \cup {NoRow}]
    BY <2>1 DEF All!Answers, All!StatusFilter, All!BookingStatus
  <2>3. [screen EXCEPT !.rows = rows, !.loading = FALSE] \in All!Page
    BY <1>0, <2>2 DEF All!Page
  <2> QED
    BY <1>4, <1>a, <1>c, <2>3 DEF All!Listed
<1>5. ASSUME NEW c, All!ListFailed(c) \/ All!SettleFailed(c)
      PROVE  All!TypeOK'
  <2>1. /\ [screen EXCEPT !.loading = FALSE] \in All!Page
        /\ [screen EXCEPT !.busyId = NoOne] \in All!Page
    BY <1>0 DEF All!Page
  <2>2. screen' \in All!Page /\ calls' \subseteq calls
    BY <1>5, <2>1 DEF All!ListFailed, All!SettleFailed
  <2> QED
    BY <1>a, <2>2
<1>6. ASSUME NEW c \in All!InFlight("approvePayment") \cup All!InFlight("rejectPayment"),
             All!Settled(c)
      PROVE  All!TypeOK'
  <2>1. c.booking \in Bookings
    BY <1>0 DEF All!InFlight, All!ListCall, All!SettleCall
  <2>2. ASSUME NEW st \in All!BookingStatus \cup {NoRow}
        PROVE  [screen EXCEPT !.busyId = NoOne, !.rows[c.booking] = st] \in All!Page
    BY <1>0, <2>1 DEF All!Page
  <2>3. All!SettledStatus(c) \in All!BookingStatus
    BY DEF All!SettledStatus, All!BookingStatus
  <2> QED
    BY <1>6, <1>a, <1>c, <2>2, <2>3 DEF All!Settled
<1> QED
  BY <1>1, <1>2, <1>3, <1>4, <1>5, <1>6
     DEF All!Next, All!AnswerList, All!AnswerSettle

\* The list of users keeps its type, its history of tokens included.
LEMMA UserListTypes ==
  ASSUME UserList!TypeOK, UserList!Next
  PROVE  UserList!TypeOK'
<1> USE DEF UserList!Handle, UserList!Receive
<1> DEFINE Calls == UserList!ListCall \cup UserList!RoleCall
<1>0. screen \in UserList!Page /\ calls \subseteq Calls
  BY DEF UserList!TypeOK
<1>a. ASSUME screen' \in UserList!Page, NEW sent \in SUBSET Calls, calls' \subseteq calls \cup sent
      PROVE  UserList!TypeOK'
  BY <1>0, <1>a DEF UserList!TypeOK
<1>b. screen.sent + 1 \in Nat
  BY <1>0 DEF UserList!Page
<1>c. ASSUME NEW s \in UserList!Page, s.sent = screen.sent,
             NEW token \in Tokens \cup {NoToken}, UserList!LoadPage(s, token)
      PROVE  UserList!TypeOK'
  <2>1. ASSUME NEW n \in Nat
        PROVE  /\ [s EXCEPT !.loading = TRUE, !.sent = n] \in UserList!Page
               /\ [call |-> "list", id |-> n, token |-> token, emailPrefix |-> s.emailFilter]
                    \in UserList!ListCall
    BY DEF UserList!Page, UserList!ListCall
  <2> QED
    BY <1>a, <1>b, <1>c, <2>1 DEF UserList!LoadPage, UserList!Number
<1>1. CASE UserList!NextPage
  BY <1>0, <1>1, <1>c DEF UserList!NextPage, UserList!Page
<1>2. CASE UserList!PreviousPage
  <2>1. UserList!PreviousToken \in Tokens \cup {NoToken}
    BY <1>0 DEF UserList!PreviousToken, UserList!Page
  <2> QED
    BY <1>0, <1>2, <1>c, <2>1 DEF UserList!PreviousPage
<1>3. CASE UserList!TypeFilter
  <2>1. [screen EXCEPT !.emailFilter = ~@, !.debouncing = TRUE] \in UserList!Page
    BY <1>0 DEF UserList!Page, UserList!Filters
  <2> QED
    BY <1>3, <1>a, <2>1 DEF UserList!TypeFilter
<1>4. CASE UserList!Debounced
  <2> DEFINE s == [screen EXCEPT !.debouncing = FALSE, !.tokenHistory = <<NoToken>>]
  <2>1. <<NoToken>> \in Seq(Tokens \cup {NoToken})
    OBVIOUS
  <2>2. s \in UserList!Page /\ s.sent = screen.sent
    BY <1>0, <2>1 DEF UserList!Page
  <2> HIDE DEF s
  <2>3. UserList!LoadPage(s, NoToken)
    BY <1>4 DEF UserList!Debounced, s
  <2> QED
    BY <1>c, <2>2, <2>3
<1>5. ASSUME NEW c \in UserList!InFlight("list"), NEW us \in SUBSET Users,
             NEW next \in (Tokens \ {c.token}) \cup {NoToken}, NEW users \in [us -> BOOLEAN],
             UserList!Listed(c, users, next)
      PROVE  UserList!TypeOK'
  <2>1. c.token \in Tokens \cup {NoToken}
    BY <1>0 DEF UserList!InFlight, UserList!ListCall, UserList!RoleCall
  <2>2. users \in UNION {[vs -> BOOLEAN] : vs \in SUBSET Users}
    OBVIOUS
  <2>3. Append(screen.tokenHistory, c.token) \in Seq(Tokens \cup {NoToken})
    BY <1>0, <2>1 DEF UserList!Page
  <2>4. ASSUME NEW h \in Seq(Tokens \cup {NoToken})
        PROVE  [screen EXCEPT !.users = users, !.nextToken = next, !.loading = FALSE,
                              !.tokenHistory = h] \in UserList!Page
    BY <1>0, <2>2 DEF UserList!Page
  <2>5. screen.tokenHistory \in Seq(Tokens \cup {NoToken})
    BY <1>0 DEF UserList!Page
  <2> QED
    BY <1>5, <1>a, <2>3, <2>4, <2>5 DEF UserList!Listed
<1>6. ASSUME NEW c, UserList!ListFailed(c) \/ UserList!RoleFailed(c)
      PROVE  UserList!TypeOK'
  <2>1. [screen EXCEPT !.loading = FALSE] \in UserList!Page
    BY <1>0 DEF UserList!Page
  <2>2. screen' \in UserList!Page /\ calls' \subseteq calls
    BY <1>0, <1>6, <2>1 DEF UserList!ListFailed, UserList!RoleFailed
  <2> QED
    BY <1>a, <2>2
<1>7. ASSUME NEW u \in Users, NEW method \in {"grantRole", "revokeRole"},
             UserList!ChangeRole(method, u)
      PROVE  UserList!TypeOK'
  <2>1. ASSUME NEW n \in Nat
        PROVE  /\ [screen EXCEPT !.sent = n] \in UserList!Page
               /\ [call |-> method, id |-> n, user |-> u] \in UserList!RoleCall
    BY <1>0 DEF UserList!Page, UserList!RoleCall
  <2>2. /\ screen' = [screen EXCEPT !.sent = screen.sent + 1]
        /\ calls' = calls \cup {[call |-> method, id |-> screen.sent + 1, user |-> u]}
    BY <1>7, Zenon DEF UserList!ChangeRole, UserList!Number
  <2> QED
    BY <1>a, <1>b, <2>1, <2>2
<1>8. ASSUME NEW c, UserList!RoleChanged(c)
      PROVE  UserList!TypeOK'
  <2>1. PICK us \in SUBSET Users : screen.users \in [us -> BOOLEAN]
    BY <1>0 DEF UserList!Page
  <2>2. [u \in DOMAIN screen.users |->
           IF u = c.user THEN c.call = "grantRole" ELSE screen.users[u]] \in [us -> BOOLEAN]
    BY <2>1
  <2>3. ASSUME NEW f \in [us -> BOOLEAN]
        PROVE  [screen EXCEPT !.users = f] \in UserList!Page
    BY <1>0 DEF UserList!Page
  <2> QED
    BY <1>8, <1>a, <2>2, <2>3 DEF UserList!RoleChanged
<1> QED
  BY <1>1, <1>2, <1>3, <1>4, <1>5, <1>6, <1>7, <1>8
     DEF UserList!Next, UserList!AnswerList, UserList!AnswerRole

\* The role page keeps its type.
LEMMA RolesTypes ==
  ASSUME Roles!TypeOK, Roles!Next
  PROVE  Roles!TypeOK'
<1> USE DEF Roles!Handle, Roles!Receive
<1> DEFINE Calls == Roles!MembersCall \cup Roles!RoleCall
<1>0. screen \in Roles!Page /\ calls \subseteq Calls
  BY DEF Roles!TypeOK
<1>a. ASSUME screen' \in Roles!Page, NEW sent \in SUBSET Calls, calls' \subseteq calls \cup sent
      PROVE  Roles!TypeOK'
  BY <1>0, <1>a DEF Roles!TypeOK
<1>b. screen.sent + 1 \in Nat
  BY <1>0 DEF Roles!Page
<1>c. ASSUME NEW n \in Nat
      PROVE  [call |-> "membersOf", id |-> n] \in Roles!MembersCall
  BY DEF Roles!MembersCall
<1>1. CASE Roles!LoadMembers
  <2>1. ASSUME NEW n \in Nat
        PROVE  [screen EXCEPT !.sent = n] \in Roles!Page
    BY <1>0 DEF Roles!Page
  <2> QED
    BY <1>1, <1>a, <1>b, <1>c, <2>1 DEF Roles!LoadMembers, Roles!Number
<1>2. CASE Roles!EditForm
  <2>1. [screen EXCEPT !.valid = ~@] \in Roles!Page
    BY <1>0 DEF Roles!Page
  <2> QED
    BY <1>2, <1>a, <2>1 DEF Roles!EditForm
<1>3. ASSUME NEW method \in {"grant", "revoke"}, Roles!ChangeRole(method)
      PROVE  Roles!TypeOK'
  <2>1. ASSUME NEW n \in Nat
        PROVE  /\ [screen EXCEPT !.busy = TRUE, !.sent = n] \in Roles!Page
               /\ [call |-> method, id |-> n] \in Roles!RoleCall
    BY <1>0 DEF Roles!Page, Roles!RoleCall
  <2> QED
    BY <1>3, <1>a, <1>b, <2>1 DEF Roles!ChangeRole, Roles!Number
<1>4. ASSUME NEW c, NEW members \in SUBSET Users, Roles!MembersAnswered(c, members)
      PROVE  Roles!TypeOK'
  <2>1. [screen EXCEPT !.members = members] \in Roles!Page
    BY <1>0 DEF Roles!Page
  <2> QED
    BY <1>4, <1>a, <2>1 DEF Roles!MembersAnswered
<1>5. ASSUME NEW c, Roles!MembersFailed(c) \/ Roles!RoleFailed(c)
      PROVE  Roles!TypeOK'
  <2>1. [screen EXCEPT !.busy = FALSE] \in Roles!Page
    BY <1>0 DEF Roles!Page
  <2>2. screen' \in Roles!Page /\ calls' \subseteq calls
    BY <1>0, <1>5, <2>1 DEF Roles!MembersFailed, Roles!RoleFailed
  <2> QED
    BY <1>a, <2>2
<1>6. ASSUME NEW c, Roles!RoleChanged(c)
      PROVE  Roles!TypeOK'
  <2>1. ASSUME NEW n \in Nat
        PROVE  [screen EXCEPT !.busy = FALSE, !.sent = n] \in Roles!Page
    BY <1>0 DEF Roles!Page
  <2> QED
    BY <1>6, <1>a, <1>b, <1>c, <2>1 DEF Roles!RoleChanged, Roles!Number
<1> QED
  BY <1>1, <1>2, <1>3, <1>4, <1>5, <1>6
     DEF Roles!Next, Roles!AnswerMembers, Roles!AnswerRole

\* The pricing form keeps its type.
LEMMA PricingTypes ==
  ASSUME Pricing!TypeOK, Pricing!Next
  PROVE  Pricing!TypeOK'
<1> USE DEF Pricing!Handle, Pricing!Receive
<1> DEFINE Calls == Pricing!GetCall \cup Pricing!PutCall
<1>0. screen \in Pricing!Page /\ calls \subseteq Calls
  BY DEF Pricing!TypeOK
<1>a. ASSUME screen' \in Pricing!Page, NEW sent \in SUBSET Calls, calls' \subseteq calls \cup sent
      PROVE  Pricing!TypeOK'
  BY <1>0, <1>a DEF Pricing!TypeOK
<1>b. screen.sent + 1 \in Nat
  BY <1>0 DEF Pricing!Page
<1>1. CASE Pricing!Reload
  <2>1. ASSUME NEW n \in Nat
        PROVE  /\ [screen EXCEPT !.loading = TRUE, !.sent = n] \in Pricing!Page
               /\ [call |-> "getPricing", id |-> n] \in Pricing!GetCall
    BY <1>0 DEF Pricing!Page, Pricing!GetCall
  <2> QED
    BY <1>1, <1>a, <1>b, <2>1 DEF Pricing!Reload, Pricing!Number
<1>2. ASSUME NEW prices \in Prices \cup {NotValid}, Pricing!EditForm(prices)
      PROVE  Pricing!TypeOK'
  <2>1. [screen EXCEPT !.form = prices] \in Pricing!Page
    BY <1>0 DEF Pricing!Page
  <2> QED
    BY <1>2, <1>a, <2>1 DEF Pricing!EditForm
<1>3. CASE Pricing!Save
  <2>0. screen.form \in Prices
    BY <1>0, <1>3 DEF Pricing!Page, Pricing!Save
  <2>1. ASSUME NEW n \in Nat
        PROVE  /\ [screen EXCEPT !.saving = TRUE, !.sent = n] \in Pricing!Page
               /\ [call |-> "updatePricing", id |-> n, prices |-> screen.form] \in Pricing!PutCall
    BY <1>0, <2>0 DEF Pricing!Page, Pricing!PutCall
  <2> QED
    BY <1>3, <1>a, <1>b, <2>1 DEF Pricing!Save, Pricing!Number
<1>4. ASSUME NEW c, NEW prices \in Prices, Pricing!Loaded(c, prices)
      PROVE  Pricing!TypeOK'
  <2>1. [screen EXCEPT !.form = prices, !.loading = FALSE] \in Pricing!Page
    BY <1>0 DEF Pricing!Page
  <2> QED
    BY <1>4, <1>a, <2>1 DEF Pricing!Loaded
<1>5. ASSUME NEW c, Pricing!LoadFailed(c) \/ Pricing!Saved(c)
      PROVE  Pricing!TypeOK'
  <2>1. /\ [screen EXCEPT !.loading = FALSE] \in Pricing!Page
        /\ [screen EXCEPT !.saving = FALSE] \in Pricing!Page
    BY <1>0 DEF Pricing!Page
  <2>2. screen' \in Pricing!Page /\ calls' \subseteq calls
    BY <1>5, <2>1 DEF Pricing!LoadFailed, Pricing!Saved
  <2> QED
    BY <1>a, <2>2
<1> QED
  BY <1>1, <1>2, <1>3, <1>4, <1>5 DEF Pricing!Next, Pricing!AnswerGet, Pricing!AnswerPut

\* The payment settings keep their type.
LEMMA QrTypes ==
  ASSUME Qr!TypeOK, Qr!Next
  PROVE  Qr!TypeOK'
<1> USE DEF Qr!Handle, Qr!Receive
<1> DEFINE Calls == Qr!GetCall \cup Qr!UploadCall \cup Qr!BlobCall
<1>0. screen \in Qr!Page /\ calls \subseteq Calls
  BY DEF Qr!TypeOK
<1>a. ASSUME screen' \in Qr!Page, NEW sent \in SUBSET Calls, calls' \subseteq calls \cup sent
      PROVE  Qr!TypeOK'
  BY <1>0, <1>a DEF Qr!TypeOK
<1>b. screen.sent \in Nat /\ screen.sent + 1 \in Nat
  BY <1>0 DEF Qr!Page
<1>c. ASSUME NEW n \in Nat
      PROVE  Qr!LoadQr(n) \in Qr!BlobCall
  BY DEF Qr!LoadQr, Qr!BlobCall
<1>1. CASE Qr!OnQrSelected
  <2>1. ASSUME NEW n \in Nat
        PROVE  [screen EXCEPT !.uploading = TRUE, !.sent = n] \in Qr!Page
    BY <1>0 DEF Qr!Page
  <2>2. [call |-> "uploadPaymentQr"] \in Qr!UploadCall
    BY DEF Qr!UploadCall
  <2> QED
    BY <1>1, <1>a, <1>b, <2>1, <2>2 DEF Qr!OnQrSelected
<1>2. ASSUME NEW c, NEW has_qr \in BOOLEAN, Qr!SettingsAnswered(c, has_qr)
      PROVE  Qr!TypeOK'
  <2>1. ASSUME NEW shown \in BOOLEAN
        PROVE  [screen EXCEPT !.settings = has_qr, !.loading = FALSE, !.qrUrl = shown] \in Qr!Page
    BY <1>0 DEF Qr!Page
  <2>2. (screen.qrUrl /\ has_qr) \in BOOLEAN
    OBVIOUS
  <2> QED
    BY <1>2, <1>a, <1>c, <2>1, <2>2 DEF Qr!SettingsAnswered
<1>3. ASSUME NEW c, Qr!Uploaded(c)
      PROVE  Qr!TypeOK'
  <2>1. [screen EXCEPT !.settings = TRUE, !.uploading = FALSE] \in Qr!Page
    BY <1>0 DEF Qr!Page
  <2> QED
    BY <1>3, <1>a, <1>b, <1>c, <2>1 DEF Qr!Uploaded
<1>4. ASSUME NEW c, \/ Qr!SettingsFailed(c) \/ Qr!UploadFailed(c)
                    \/ Qr!QrAnswered(c) \/ Qr!QrFailed(c)
      PROVE  Qr!TypeOK'
  <2>1. /\ [screen EXCEPT !.loading = FALSE] \in Qr!Page
        /\ [screen EXCEPT !.uploading = FALSE] \in Qr!Page
        /\ \A shown \in BOOLEAN : [screen EXCEPT !.qrUrl = shown] \in Qr!Page
    BY <1>0 DEF Qr!Page
  <2>2. screen' \in Qr!Page /\ calls' \subseteq calls
    BY <1>4, <2>1 DEF Qr!SettingsFailed, Qr!UploadFailed, Qr!QrAnswered, Qr!QrFailed
  <2> QED
    BY <1>a, <2>2
<1> QED
  BY <1>1, <1>2, <1>3, <1>4 DEF Qr!Next, Qr!AnswerSettings, Qr!AnswerUpload, Qr!AnswerQr

-----------------------------------------------------------------------------
(* The router.                                                             *)

\* A page that the router has just opened.
LEMMA NewPages ==
  /\ screen' = Book!NewForm /\ calls' = {} => Book!TypeOK'
  /\ screen' = Edit!NewForm /\ calls' = Edit!FirstCalls => Edit!TypeOK'
  /\ screen' = Mine!NewPage /\ calls' = Mine!FirstCalls => Mine!TypeOK'
  /\ screen' = Payments!NewPage /\ calls' = Payments!FirstCalls => Payments!TypeOK'
  /\ screen' = All!NewPage /\ calls' = All!FirstCalls => All!TypeOK'
  /\ screen' = UserList!NewPage /\ calls' = UserList!FirstCalls => UserList!TypeOK'
  /\ screen' = Roles!NewPage /\ calls' = Roles!FirstCalls => Roles!TypeOK'
  /\ screen' = Pricing!NewPage /\ calls' = Pricing!FirstCalls => Pricing!TypeOK'
  /\ screen' = Qr!NewPage /\ calls' = Qr!FirstCalls => Qr!TypeOK'
<1>1. Book!NewForm \in Book!Form
  BY DEF Book!NewForm, Book!Form
<1>2. Edit!NewForm \in Edit!Form /\ Edit!FirstCalls \subseteq Edit!GetCall
  BY DEF Edit!NewForm, Edit!Form, Edit!FirstCalls, Edit!GetCall
<1>3. Mine!NewPage \in Mine!Page /\ Mine!FirstCalls \subseteq Mine!ReadCall
  BY DEF Mine!NewPage, Mine!Page, Mine!FirstCalls, Mine!ReadCall
<1>4. Payments!NewPage \in Payments!Page /\ Payments!FirstCalls \subseteq Payments!ListCall
  BY DEF Payments!NewPage, Payments!Page, Payments!NoDrafts, Payments!FirstCalls, Payments!ListCall
<1>5. All!NewPage \in All!Page /\ All!FirstCalls \subseteq All!ListCall
  BY DEF All!NewPage, All!Page, All!StatusFilter, All!FirstCalls, All!ListCall
<1>6. UserList!NewPage \in UserList!Page /\ UserList!FirstCalls \subseteq UserList!ListCall
  <2>1. [u \in {} |-> FALSE] \in UNION {[us -> BOOLEAN] : us \in SUBSET Users}
    OBVIOUS
  <2>2. <<NoToken>> \in Seq(Tokens \cup {NoToken})
    OBVIOUS
  <2>3. UserList!NewPage \in UserList!Page
    BY <2>1, <2>2 DEF UserList!NewPage, UserList!Page, UserList!Filters
  <2>4. UserList!FirstCalls \subseteq UserList!ListCall
    BY DEF UserList!Filters, UserList!FirstCalls, UserList!ListCall
  <2> QED
    BY <2>3, <2>4
<1>7. Roles!NewPage \in Roles!Page /\ Roles!FirstCalls \subseteq Roles!MembersCall
  BY DEF Roles!NewPage, Roles!Page, Roles!FirstCalls, Roles!MembersCall
<1>8. Pricing!NewPage \in Pricing!Page /\ Pricing!FirstCalls \subseteq Pricing!GetCall
  BY TableAssumption DEF Pricing!NewPage, Pricing!Page, Pricing!FirstCalls, Pricing!GetCall
<1>9. Qr!NewPage \in Qr!Page /\ Qr!FirstCalls \subseteq Qr!GetCall
  BY DEF Qr!NewPage, Qr!Page, Qr!FirstCalls, Qr!GetCall
<1> QED
  BY <1>1, <1>2, <1>3, <1>4, <1>5, <1>6, <1>7, <1>8, <1>9
     DEF Book!TypeOK, Edit!TypeOK, Mine!TypeOK, Payments!TypeOK, All!TypeOK, UserList!TypeOK,
         Roles!TypeOK, Pricing!TypeOK, Qr!TypeOK

\* The form or the table on screen names its page.
LEMMA PageNames ==
  /\ Book!TypeOK => screen.page = "book"
  /\ Edit!TypeOK => screen.page = "edit"
  /\ Mine!TypeOK => screen.page = "my-bookings"
  /\ Payments!TypeOK => screen.page = "payments"
  /\ All!TypeOK => screen.page = "admin-bookings"
  /\ UserList!TypeOK => screen.page = "users"
  /\ Roles!TypeOK => screen.page = "roles"
  /\ Pricing!TypeOK => screen.page = "pricing"
  /\ Qr!TypeOK => screen.page = "payment-settings"
BY DEF Book!TypeOK, Book!Form, Edit!TypeOK, Edit!Form, Mine!TypeOK, Mine!Page,
       Payments!TypeOK, Payments!Page, All!TypeOK, All!Page, UserList!TypeOK, UserList!Page,
       Roles!TypeOK, Roles!Page, Pricing!TypeOK, Pricing!Page, Qr!TypeOK, Qr!Page

\* The same, after a step.
LEMMA NextPageNames ==
  /\ Book!TypeOK' => screen'.page = "book"
  /\ Edit!TypeOK' => screen'.page = "edit"
  /\ Mine!TypeOK' => screen'.page = "my-bookings"
  /\ Payments!TypeOK' => screen'.page = "payments"
  /\ All!TypeOK' => screen'.page = "admin-bookings"
  /\ UserList!TypeOK' => screen'.page = "users"
  /\ Roles!TypeOK' => screen'.page = "roles"
  /\ Pricing!TypeOK' => screen'.page = "pricing"
  /\ Qr!TypeOK' => screen'.page = "payment-settings"
BY DEF Book!TypeOK, Book!Form, Edit!TypeOK, Edit!Form, Mine!TypeOK, Mine!Page,
       Payments!TypeOK, Payments!Page, All!TypeOK, All!Page, UserList!TypeOK, UserList!Page,
       Roles!TypeOK, Roles!Page, Pricing!TypeOK, Pricing!Page, Qr!TypeOK, Qr!Page

\* The type of the page that is open, as a predicate of its name.
LEMMA PageTypes ==
  ASSUME TypeOK
  PROVE  /\ screen.page = "book" => Book!TypeOK
         /\ screen.page = "edit" => Edit!TypeOK
         /\ screen.page = "my-bookings" => Mine!TypeOK
         /\ screen.page = "payments" => Payments!TypeOK
         /\ screen.page = "admin-bookings" => All!TypeOK
         /\ screen.page = "users" => UserList!TypeOK
         /\ screen.page = "roles" => Roles!TypeOK
         /\ screen.page = "pricing" => Pricing!TypeOK
         /\ screen.page = "payment-settings" => Qr!TypeOK
BY PageNames DEF TypeOK

\* Whatever page opens.
LEMMA OpenedPage ==
  ASSUME TypeOK, Navigate \/ OpenMine
  PROVE  TypeOK'
<1>1. nav' = NoPage /\ abandoned' \in BOOLEAN
  BY DEF Navigate, OpenMine, Open, TypeOK
<1> QED
  BY <1>1, NewPages DEF Navigate, OpenMine, Open, TypeOK

-----------------------------------------------------------------------------
(* The application.                                                        *)

\* Where the handlers of a page without an image may navigate.
LEMMA PlainPages ==
  ASSUME \/ Book!Next \/ Edit!Next \/ Payments!Next \/ All!Next \/ UserList!Next
         \/ Roles!Next \/ Pricing!Next
  PROVE  nav' \in {nav, "my-bookings"}
<1>1. ASSUME Book!Next
      PROVE  nav' \in {nav, "my-bookings"}
  BY <1>1 DEF Book!Next, Book!ChangeWindow, Book!OnSeatPicked, Book!RefreshPrice, Book!Submit,
     Book!AnswerMap, Book!SeatsAnswered, Book!SeatsFailed, Book!AnswerPrice,
     Book!PriceAnswered, Book!PriceFailed, Book!AnswerCreate, Book!Created, Book!CreateFailed,
     Book!Handle, Book!Receive, Book!ReceiveAndLeave
<1>2. ASSUME Edit!Next
      PROVE  nav' \in {nav, "my-bookings"}
  BY <1>2 DEF Edit!Next, Edit!ChangeWindow, Edit!OnSeatPicked, Edit!Save, Edit!AnswerBooking,
     Edit!BookingLoaded, Edit!BookingFailed, Edit!AnswerMap, Edit!SeatsAnswered,
     Edit!SeatsFailed, Edit!AnswerPrice, Edit!PriceAnswered, Edit!PriceFailed,
     Edit!AnswerUpdate, Edit!Updated, Edit!UpdateFailed,
     Edit!Handle, Edit!Receive, Edit!ReceiveAndLeave
<1>3. ASSUME Payments!Next
      PROVE  nav' = nav
  BY <1>3 DEF Payments!Next, Payments!Reload, Payments!SetAmount, Payments!ClearAmount, Payments!Approve,
     Payments!Reject, Payments!AnswerList, Payments!Listed, Payments!ListFailed,
     Payments!AnswerApprove, Payments!AnswerReject, Payments!Settled, Payments!SettleFailed,
     Payments!Handle, Payments!Receive
<1>4. ASSUME All!Next
      PROVE  nav' = nav
  BY <1>4 DEF All!Next, All!Reload, All!Search, All!Settle, All!AnswerList, All!Listed,
     All!ListFailed, All!AnswerSettle, All!Settled, All!SettleFailed, All!Handle, All!Receive
<1>5. ASSUME UserList!Next
      PROVE  nav' = nav
  BY <1>5, Zenon DEF UserList!Next, UserList!NextPage, UserList!PreviousPage, UserList!TypeFilter,
     UserList!Debounced, UserList!ChangeRole, UserList!LoadPage, UserList!AnswerList,
     UserList!Listed, UserList!ListFailed, UserList!AnswerRole, UserList!RoleChanged,
     UserList!RoleFailed, UserList!Handle, UserList!Receive
<1>6. ASSUME Roles!Next
      PROVE  nav' = nav
  BY <1>6 DEF Roles!Next, Roles!LoadMembers, Roles!EditForm, Roles!ChangeRole,
     Roles!AnswerMembers, Roles!MembersAnswered, Roles!MembersFailed, Roles!AnswerRole,
     Roles!RoleChanged, Roles!RoleFailed, Roles!Handle, Roles!Receive
<1>7. ASSUME Pricing!Next
      PROVE  nav' = nav
  BY <1>7 DEF Pricing!Next, Pricing!Reload, Pricing!EditForm, Pricing!Save, Pricing!AnswerGet,
     Pricing!Loaded, Pricing!LoadFailed, Pricing!AnswerPut, Pricing!Saved,
     Pricing!Handle, Pricing!Receive
<1> QED
  BY <1>1, <1>2, <1>3, <1>4, <1>5, <1>6, <1>7

\* What the two pages with an image do to the router.
LEMMA ImagePages ==
  /\ Mine!Next => nav' \in {nav, "edit"}
  /\ Qr!Next => nav' = nav
<1>1. ASSUME Mine!Next
      PROVE  nav' \in {nav, "edit"}
  BY <1>1 DEF Mine!Next, Mine!Upload, Mine!EditBooking, Mine!AnswerList, Mine!Listed,
     Mine!ListFailed, Mine!AnswerSettings, Mine!SettingsAnswered, Mine!SettingsFailed,
     Mine!AnswerQr, Mine!QrAnswered, Mine!QrFailed, Mine!AnswerUpload, Mine!Uploaded,
     Mine!UploadFailed, Mine!Handle, Mine!Receive
<1>2. ASSUME Qr!Next
      PROVE  nav' = nav
  BY <1>2 DEF Qr!Next, Qr!OnQrSelected, Qr!AnswerSettings, Qr!SettingsAnswered,
     Qr!SettingsFailed, Qr!AnswerUpload, Qr!Uploaded, Qr!UploadFailed, Qr!AnswerQr,
     Qr!QrAnswered, Qr!QrFailed, Qr!Handle, Qr!Receive
<1> QED
  BY <1>1, <1>2

\* What a page does, as a predicate of its name.
LEMMA WorkTypes ==
  ASSUME TypeOK, Work
  PROVE  TypeOK'
<1>1. abandoned' \in BOOLEAN /\ nav \in UserPages \cup AdminPages \cup {NoPage}
  BY DEF TypeOK, Work, On
<1>2. CASE screen.page = "my-bookings" /\ Mine!Next
  <2>1. Mine!TypeOK'
    BY <1>2, PageTypes, MineTypes
  <2>2. nav' \in UserPages \cup AdminPages \cup {NoPage}
    BY <1>1, <1>2, ImagePages DEF UserPages
  <2> QED
    BY <1>1, <2>1, <2>2 DEF TypeOK
<1>3. CASE screen.page = "payment-settings" /\ Qr!Next
  <2>1. Qr!TypeOK'
    BY <1>3, PageTypes, QrTypes
  <2>2. nav' \in UserPages \cup AdminPages \cup {NoPage}
    BY <1>1, <1>3, ImagePages
  <2> QED
    BY <1>1, <2>1, <2>2 DEF TypeOK
<1>4. CASE \/ screen.page = "book" /\ Book!Next
           \/ screen.page = "edit" /\ Edit!Next
           \/ screen.page = "payments" /\ Payments!Next
           \/ screen.page = "admin-bookings" /\ All!Next
           \/ screen.page = "users" /\ UserList!Next
           \/ screen.page = "roles" /\ Roles!Next
           \/ screen.page = "pricing" /\ Pricing!Next
  <2>1. \/ Book!TypeOK' \/ Edit!TypeOK' \/ Payments!TypeOK' \/ All!TypeOK'
        \/ UserList!TypeOK' \/ Roles!TypeOK' \/ Pricing!TypeOK'
    BY <1>4, PageTypes, BookTypes, EditTypes, PaymentsTypes, AllTypes, UserListTypes,
       RolesTypes, PricingTypes
  <2>2. nav' \in UserPages \cup AdminPages \cup {NoPage}
    BY <1>1, <1>4, PlainPages DEF UserPages
  <2> QED
    BY <1>1, <2>1, <2>2 DEF TypeOK
<1> QED
  BY <1>2, <1>3, <1>4 DEF Work, On

\* Every step of the application keeps the open page's type.
LEMMA AppStep ==
  ASSUME TypeOK, [Next]_appVars
  PROVE  TypeOK'
<1>1. ASSUME UNCHANGED <<screen, calls>>, abandoned' \in BOOLEAN,
             nav' \in UserPages \cup AdminPages \cup {NoPage}
      PROVE  TypeOK'
  <2>1. /\ Book!TypeOK => Book!TypeOK'
        /\ Edit!TypeOK => Edit!TypeOK'
        /\ Mine!TypeOK => Mine!TypeOK'
        /\ Payments!TypeOK => Payments!TypeOK'
        /\ All!TypeOK => All!TypeOK'
        /\ UserList!TypeOK => UserList!TypeOK'
        /\ Roles!TypeOK => Roles!TypeOK'
        /\ Pricing!TypeOK => Pricing!TypeOK'
        /\ Qr!TypeOK => Qr!TypeOK'
    BY <1>1 DEF Book!TypeOK, Edit!TypeOK, Mine!TypeOK, Payments!TypeOK, All!TypeOK,
                UserList!TypeOK, Roles!TypeOK, Pricing!TypeOK, Qr!TypeOK
  <2> QED
    BY <1>1, <2>1 DEF TypeOK
<1>2. CASE Work
  BY <1>2, WorkTypes
<1>3. ASSUME NEW page \in UserPages \cup AdminPages, FollowLink(page)
      PROVE  TypeOK'
  BY <1>1, <1>3 DEF FollowLink, TypeOK
<1>4. CASE Navigate
  BY <1>4, OpenedPage
<1>5. CASE SentBack
  BY <1>1, <1>5, OpenedPage DEF SentBack, TypeOK
<1>6. CASE LateLeave
  BY <1>1, <1>6 DEF LateLeave, TypeOK, UserPages
<1>7. CASE UNCHANGED appVars
  BY <1>1, <1>7 DEF appVars, vars, TypeOK
<1> QED
  BY <1>2, <1>3, <1>4, <1>5, <1>6, <1>7 DEF Next

\* Every page keeps its type, and only the pages' own names are navigated to.
THEOREM ClientTypes == Spec => []TypeOK
<1>1. Init => TypeOK
  <2> SUFFICES ASSUME Init PROVE TypeOK
    OBVIOUS
  <2>1. Mine!NewPage \in Mine!Page
    BY DEF Mine!NewPage, Mine!Page
  <2>2. Mine!FirstCalls \subseteq Mine!ReadCall
    BY DEF Mine!FirstCalls, Mine!ReadCall
  <2>3. Mine!TypeOK
    BY <2>1, <2>2 DEF Init, Mine!TypeOK
  <2>4. nav \in UserPages \cup AdminPages \cup {NoPage} /\ abandoned \in BOOLEAN
    BY DEF Init
  <2> QED
    BY <2>3, <2>4 DEF TypeOK
<1>2. TypeOK /\ [Next]_appVars => TypeOK'
  BY AppStep
<1> QED
  BY <1>1, <1>2, PTL DEF Spec
=============================================================================
