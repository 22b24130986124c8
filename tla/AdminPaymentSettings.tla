------------------------ MODULE AdminPaymentSettings ------------------------
(***************************************************************************)
(* The payment QR image: shown, and replaced by an upload, which need not  *)
(* wait for the first answer.                                              *)
(***************************************************************************)
EXTENDS ClientScreen

CONSTANTS
  NoSettings,  \* the settings are not loaded
  MaxCalls     \* bound: uploads that one page starts

GetCall == [call : {"getPaymentSettings"}]
UploadCall == [call : {"uploadPaymentQr"}]
BlobCall == [call : {"paymentQrBlob"}, id : Nat]

\* Of the settings only has_qr is kept, of the image only that one is shown.
Page ==
  [page : {"payment-settings"}, loading : BOOLEAN, uploading : BOOLEAN,
   settings : BOOLEAN \cup {NoSettings}, qrUrl : BOOLEAN,
   sent : Nat]           \* uploads started

TypeOK ==
  /\ screen \in Page
  /\ calls \subseteq GetCall \cup UploadCall \cup BlobCall

NewPage ==
  [page |-> "payment-settings", loading |-> TRUE, uploading |-> FALSE,
   settings |-> NoSettings, qrUrl |-> FALSE, sent |-> 0]

\* ngOnInit asks for the settings.
FirstCalls == {[call |-> "getPaymentSettings"]}

\* The image is asked for after the settings, and after each upload.
LoadQr(n) == [call |-> "paymentQrBlob", id |-> n]

-----------------------------------------------------------------------------
SettingsAnswered(c, has_qr) ==
  Receive(c, [screen EXCEPT !.settings = has_qr, !.loading = FALSE, !.qrUrl = @ /\ has_qr],
          IF has_qr THEN {LoadQr(0)} ELSE {})

SettingsFailed(c) == Receive(c, [screen EXCEPT !.loading = FALSE], {})

OnQrSelected ==
  /\ ~screen.uploading
  /\ screen.sent < MaxCalls
  /\ Handle([screen EXCEPT !.uploading = TRUE, !.sent = @ + 1],
            {[call |-> "uploadPaymentQr"]})

Uploaded(c) ==
  Receive(c, [screen EXCEPT !.settings = TRUE, !.uploading = FALSE], {LoadQr(screen.sent)})

UploadFailed(c) == Receive(c, [screen EXCEPT !.uploading = FALSE], {})

\* The image that is shown is replaced, or given up.
QrAnswered(c) == Receive(c, [screen EXCEPT !.qrUrl = TRUE], {})

QrFailed(c) == Receive(c, [screen EXCEPT !.qrUrl = FALSE], {})

AnswerSettings ==
  \E c \in InFlight("getPaymentSettings") :
    SettingsFailed(c) \/ \E has_qr \in BOOLEAN : SettingsAnswered(c, has_qr)

AnswerUpload == \E c \in InFlight("uploadPaymentQr") : Uploaded(c) \/ UploadFailed(c)

AnswerQr == \E c \in InFlight("paymentQrBlob") : QrAnswered(c) \/ QrFailed(c)

Next ==
  \/ OnQrSelected
  \/ AnswerSettings
  \/ AnswerUpload
  \/ AnswerQr

-----------------------------------------------------------------------------
SpinnersHaveCalls ==
  /\ screen.loading <=> InFlight("getPaymentSettings") # {}
  /\ screen.uploading <=> InFlight("uploadPaymentQr") # {}
=============================================================================
