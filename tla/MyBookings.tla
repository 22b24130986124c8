----------------------------- MODULE MyBookings -----------------------------
(***************************************************************************)
(* The user's bookings: a list read once, the payment card with its QR     *)
(* image, and the upload of a payment proof.                               *)
(***************************************************************************)
EXTENDS ClientScreen

CONSTANTS
  Bookings,    \* the user's bookings
  NoRow,       \* the list does not hold this booking
  NoOne,       \* no proof is being uploaded
  NoSettings,  \* the payment settings are not loaded
  MaxCalls     \* bound: uploads that one page starts

BookingStatus == {"RESERVED", "PAYMENT_PENDING", "COMPLETED", "EXPIRED", "REJECTED"}
ReadCall == [call : {"mine", "paymentSettings", "paymentQrBlob"}]
UploadCall == [call : {"uploadPaymentProof"}, id : Nat, booking : Bookings]

\* Of the settings only has_qr is kept, of the image only that one is shown.
Page ==
  [page : {"my-bookings"},
   rows : [Bookings -> BookingStatus \cup {NoRow}],
   loading : BOOLEAN,
   uploadingId : Bookings \cup {NoOne},
   settings : BOOLEAN \cup {NoSettings},
   qrUrl : BOOLEAN,
   sent : Nat]           \* uploads started

TypeOK ==
  /\ screen \in Page
  /\ calls \subseteq ReadCall \cup UploadCall

NewPage ==
  [page |-> "my-bookings", rows |-> [b \in Bookings |-> NoRow], loading |-> TRUE,
   uploadingId |-> NoOne, settings |-> NoSettings, qrUrl |-> FALSE, sent |-> 0]

\* The constructor asks for the list.
FirstCalls == {[call |-> "mine"]}

NeedsPayment(s) == \E b \in Bookings : s.rows[b] \in {"RESERVED", "PAYMENT_PENDING"}

-----------------------------------------------------------------------------
\* The list has come; the payment card is asked for only if a booking needs it.
Listed(c, rows) ==
  LET s == [screen EXCEPT !.rows = rows, !.loading = FALSE] IN
  Receive(c, s, IF NeedsPayment(s) THEN {[call |-> "paymentSettings"]} ELSE {})

ListFailed(c) == Receive(c, [screen EXCEPT !.loading = FALSE], {})

SettingsAnswered(c, has_qr) ==
  Receive(c, [screen EXCEPT !.settings = has_qr],
          IF has_qr THEN {[call |-> "paymentQrBlob"]} ELSE {})

SettingsFailed(c) == Receive(c, screen, {})

\* The image that is shown is replaced, or given up.
QrAnswered(c) == Receive(c, [screen EXCEPT !.qrUrl = TRUE], {})

QrFailed(c) == Receive(c, [screen EXCEPT !.qrUrl = FALSE], {})

-----------------------------------------------------------------------------
\* Another row's upload may be under way: its mark is overwritten.
Upload(b) ==
  /\ screen.rows[b] = "RESERVED" /\ screen.uploadingId # b
  /\ screen.sent < MaxCalls
  /\ Handle([screen EXCEPT !.uploadingId = b, !.sent = @ + 1],
            {[call |-> "uploadPaymentProof", id |-> screen.sent + 1, booking |-> b]})

Uploaded(c) ==
  Receive(c, [screen EXCEPT
                !.uploadingId = NoOne,
                !.rows[c.booking] = IF @ = NoRow THEN NoRow ELSE "PAYMENT_PENDING"], {})

UploadFailed(c) == Receive(c, [screen EXCEPT !.uploadingId = NoOne], {})

\* The row has an Edit button.
CanEdit(b) == screen.rows[b] \in {"RESERVED", "PAYMENT_PENDING", "COMPLETED"}

EditBooking ==
  /\ \E b \in Bookings : CanEdit(b)
  /\ nav' = "edit"
  /\ UNCHANGED <<screen, calls>>

AnswerList ==
  \E c \in InFlight("mine") :
    \/ ListFailed(c)
    \/ \E rows \in [Bookings -> BookingStatus \cup {NoRow}] : Listed(c, rows)

AnswerSettings ==
  \E c \in InFlight("paymentSettings") :
    SettingsFailed(c) \/ \E has_qr \in BOOLEAN : SettingsAnswered(c, has_qr)

AnswerQr == \E c \in InFlight("paymentQrBlob") : QrAnswered(c) \/ QrFailed(c)

AnswerUpload == \E c \in InFlight("uploadPaymentProof") : Uploaded(c) \/ UploadFailed(c)

Next ==
  \/ \E b \in Bookings : Upload(b)
  \/ EditBooking
  \/ AnswerList
  \/ AnswerSettings
  \/ AnswerQr
  \/ AnswerUpload

-----------------------------------------------------------------------------
SpinnersHaveCalls ==
  /\ screen.loading => InFlight("mine") # {}
  /\ screen.uploadingId # NoOne =>
       \E c \in InFlight("uploadPaymentProof") : c.booking = screen.uploadingId
=============================================================================
