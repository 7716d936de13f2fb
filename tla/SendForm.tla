-------------------------------- MODULE SendForm --------------------------------
(***************************************************************************)
(* The dialog that sends USDC: its reducer (components/send-funds), the     *)
(* recipient field with its debounced resolver (RecipientInput.tsx,         *)
(* lib/ens), sendUsdc of hooks/useWallet.ts and the transfer session behind *)
(* /api/transfer/register.                                                  *)
(*                                                                          *)
(* The dialog stays mounted in its page, so its state and the closures of   *)
(* running calls survive a close; the field inside it is mounted only while *)
(* the form shows.  A call is a slot of Call, one step per await.  The      *)
(* amount, messages and fees are left out.  (The strip of recent recipients *)
(* asks the server without a token, is refused and never shows.)            *)
(***************************************************************************)
EXTENDS Naturals, FiniteSets

CONSTANTS
  Name,     \* names one can type; resolved by the name service
  Addr,     \* addresses, typed as they are or found for a name
  Call,     \* calls of sendUsdc; bounds the confirmations
  None      \* the empty field, no address, no hash

Text == Name \cup Addr

VARIABLES
  recipient,  \* [input, address, resolving] of the reducer
  preview,    \* showPreview
  phase, hash,
  open,       \* the dialog
  timer,      \* the field's debounce timer: the text it will resolve
  awaited,    \* the field's lookup with the current sequence number
  orphans,    \* lookups of a field that is gone: nothing discards their answers
  call,       \* call[c]: pc, to (the recipient when it was confirmed)
  paid,       \* the calls whose transfer is on chain
  session,    \* transfer_authorization: "none", "v2", "stale" (v1 or expired)
  strayed     \* history: a call outlived its preview, or a lookup its field

fieldVars == <<timer, awaited, orphans>>
formVars == <<recipient, preview, phase, hash, open, fieldVars, strayed>>
vars == <<formVars, call, paid, session>>

Working == {"submitting", "signing_session", "registering", "confirming"}
Phase == Working \cup {"idle", "success", "error"}
Flying == {"token", "status", "register", "send", "confirm"}
Empty == [input |-> None, address |-> None, resolving |-> FALSE]

TypeOK ==
  /\ recipient \in [input : Text \cup {None}, address : Addr \cup {None}, resolving : BOOLEAN]
  /\ preview \in BOOLEAN /\ open \in BOOLEAN /\ strayed \in BOOLEAN
  /\ phase \in Phase /\ hash \in Call \cup {None}
  /\ timer \in Text \cup {None} /\ awaited \in Text \cup {None} /\ orphans \subseteq Text
  /\ call \in [Call -> [pc : Flying \cup {"unused", "done"}, to : Addr \cup {None}]]
  /\ paid \subseteq Call
  /\ session \in {"none", "stale", "v2"}

Init ==
  /\ recipient = Empty /\ preview = FALSE /\ phase = "idle" /\ hash = None
  /\ open = FALSE /\ strayed = FALSE
  /\ timer = None /\ awaited = None /\ orphans = {}
  /\ call = [c \in Call |-> [pc |-> "unused", to |-> None]] /\ paid = {}
  /\ session \in {"stale", "v2"}

-------------------------------------------------------------------------------
(* What the dialog shows. *)
View ==
  IF ~open THEN "closed"
  ELSE IF phase = "success" /\ hash # None THEN "success"
  ELSE IF phase \in Working THEN "progress"
  ELSE IF preview THEN "preview" ELSE "form"

(* The effect that runs when the field appears or its text changes: an      *)
(* address is taken at once, and still looked up.                           *)
Noticed(r) ==
  IF r.input = None THEN Empty
  ELSE IF r.input \in Addr /\ (r.address # r.input \/ r.resolving)
    THEN [r EXCEPT !.address = r.input, !.resolving = TRUE] ELSE r

(* A new text supersedes the lookup under way; an emptied field leaves the  *)
(* effect before it counts up.                                              *)
AwaitedAfter(t) == IF t = None THEN awaited ELSE None

(* SET_RECIPIENT.  done: the lookup that is answered, no longer under way. *)
SetRecipient(r, done) ==
  /\ IF View = "form" /\ r.input # recipient.input
     THEN /\ recipient' = Noticed(r) /\ timer' = r.input
          /\ awaited' = IF done THEN None ELSE AwaitedAfter(r.input)
     ELSE /\ recipient' = r /\ UNCHANGED timer
          /\ awaited' = IF done THEN None ELSE awaited
  /\ UNCHANGED <<preview, phase, hash, open, strayed>>

(* A step that may change what is shown.  The field starts a timer when it  *)
(* appears; when it goes, the timer goes with it, its lookup does not.      *)
Show(r) ==
  /\ recipient' = IF View # "form" /\ View' = "form" THEN Noticed(r) ELSE r
  /\ timer' = IF View' # "form" THEN None ELSE IF View # "form" THEN r.input ELSE timer
  /\ awaited' = IF View' = "form" THEN awaited ELSE None
  /\ orphans' = IF View' = "form" THEN orphans ELSE orphans \cup ({awaited} \ {None})

Type(t) ==
  /\ View = "form" /\ t # recipient.input
  /\ SetRecipient([input |-> t, address |-> None, resolving |-> TRUE], FALSE)
  /\ UNCHANGED <<orphans, call, paid, session>>

Fire ==
  /\ timer # None
  /\ awaited' = timer /\ timer' = None
  /\ UNCHANGED <<recipient, preview, phase, hash, open, orphans, strayed, call, paid, session>>

(* An address stands for itself; a name has an owner who may change, a      *)
(* cached answer keeps the earlier one; either may fail.                    *)
Found(t) == {None} \cup (IF t \in Addr THEN {t} ELSE Addr)

Answered(t, a) == [input |-> t, address |-> a, resolving |-> FALSE]

Resolve ==
  /\ awaited # None
  /\ \E a \in Found(awaited) : SetRecipient(Answered(awaited, a), TRUE)
  /\ UNCHANGED <<orphans, call, paid, session>>

ResolveOrphan(t) ==
  /\ t \in orphans /\ orphans' = orphans \ {t}
  /\ \E a \in Found(t) : SetRecipient(Answered(t, a), FALSE)
  /\ UNCHANGED <<call, paid, session>>

-------------------------------------------------------------------------------
(* The dialog's buttons. *)
InFlight == \E c \in Call : call[c].pc \in Flying

Open ==
  /\ ~open /\ open' = TRUE
  /\ UNCHANGED <<preview, phase, hash>> /\ Show(recipient)
  /\ UNCHANGED <<strayed, call, paid, session>>

Continue ==
  /\ View = "form" /\ recipient.address # None /\ ~recipient.resolving
  /\ preview' = TRUE /\ UNCHANGED <<phase, hash, open>> /\ Show(recipient)
  /\ strayed' = (strayed \/ awaited # None)
  /\ UNCHANGED <<call, paid, session>>

Back ==
  /\ View = "preview" /\ phase = "idle"
  /\ preview' = FALSE /\ phase' = "idle" /\ UNCHANGED <<hash, open>> /\ Show(recipient)
  /\ strayed' = (strayed \/ InFlight)
  /\ UNCHANGED <<call, paid, session>>

(* Faulty variant of Payee: a handleSend memoised at the first confirmation. *)
PayeeMemoised ==
  LET used == {c \in Call : call[c].pc # "unused"} IN
  IF used = {} THEN recipient.address ELSE call[CHOOSE c \in used : TRUE].to

Payee == recipient.address

(* handleSend.  Nothing tells the button of a call before its first phase,  *)
(* and each call has an idempotency key of its own.                         *)
Confirm(c) ==
  /\ View = "preview" /\ recipient.address # None /\ call[c].pc = "unused"
  /\ call' = [call EXCEPT ![c] = [pc |-> "token", to |-> Payee]]
  /\ UNCHANGED <<formVars, paid, session>>

(* RESET: the dialog closes from any view, also over a running call. *)
Close ==
  /\ open /\ open' = FALSE
  /\ preview' = FALSE /\ phase' = "idle" /\ hash' = None /\ Show(Empty)
  /\ strayed' = (strayed \/ awaited # None \/ InFlight)
  /\ UNCHANGED <<call, paid, session>>

-------------------------------------------------------------------------------
(* sendUsdc.  A call dispatches its phases whatever the dialog shows by now. *)
Emit(p, h) ==
  /\ phase' = p /\ hash' = h /\ UNCHANGED <<preview, open>> /\ Show(recipient)
  /\ strayed' = (strayed \/ (View = "form" /\ awaited # None))
Go(c, p) == call' = [call EXCEPT ![c].pc = p]

(* A rejected fetch, an error answer: PHASE error and SET_ERROR. *)
Fails(c) == Go(c, "done") /\ Emit("error", hash)

AccessToken(c) ==
  /\ call[c].pc = "token"
  /\ \/ Go(c, "status") /\ Emit("submitting", hash)
     \/ Fails(c)
  /\ UNCHANGED <<paid, session>>

(* GET /api/transfer/register: an expired session is not enabled, a missing *)
(* version means 1; so does the body of an error.                           *)
NeedsSetup == session # "v2"

(* POST /api/transfer/register accepts a valid session of version 2.  For   *)
(* any other it builds a new one with the wallet of the body; its provider, *)
(* a function, is not in JSON, so that always throws and nothing is stored. *)
SetupSucceeds == session = "v2"

Status(c) ==
  /\ call[c].pc = "status"
  /\ \/ ~NeedsSetup /\ Go(c, "send") /\ Emit("submitting", hash)
     \/ Go(c, "register") /\ Emit("signing_session", hash)
     \/ Fails(c)
  /\ UNCHANGED <<paid, session>>

Register(c) ==
  /\ call[c].pc = "register"
  /\ \/ SetupSucceeds /\ Go(c, "send") /\ Emit("submitting", hash)
     \/ Fails(c)
  /\ UNCHANGED <<paid, session>>

(* POST /api/transfer/send: the gate on the session, and the transfer.  A   *)
(* failure may hide a transfer that was submitted.                          *)
Send(c) ==
  /\ call[c].pc = "send"
  /\ \/ /\ session = "v2" /\ paid' = paid \cup {c}
        /\ \/ Go(c, "confirm") /\ Emit("confirming", hash)
           \/ Fails(c)
     \/ Fails(c) /\ UNCHANGED paid
  /\ UNCHANGED session

Succeed(c) ==
  /\ call[c].pc = "confirm" /\ Go(c, "done") /\ Emit("success", c)
  /\ UNCHANGED <<paid, session>>

(* DELETE /api/transfer/register, and the 30 days of a session. *)
Revoke == session # "none" /\ session' = "none" /\ UNCHANGED <<formVars, call, paid>>
Expire == session = "v2" /\ session' = "stale" /\ UNCHANGED <<formVars, call, paid>>

Next ==
  \/ \E t \in Text \cup {None} : Type(t)
  \/ Fire \/ Resolve \/ \E t \in Text : ResolveOrphan(t)
  \/ Open \/ Continue \/ Back \/ Close
  \/ \E c \in Call : Confirm(c) \/ AccessToken(c) \/ Status(c) \/ Register(c) \/ Send(c) \/ Succeed(c)
  \/ Revoke \/ Expire

Spec == Init /\ [][Next]_vars

-------------------------------------------------------------------------------
(* "Race-safe via sequence tag (discard stale responses)"                   *)
(* (RecipientInput.tsx:34): an answer never changes the text.  A name that  *)
(* is new in the form was typed, and is still to be resolved.  (It fails:   *)
(* emptying the field does not count up, and a lookup of a field that is    *)
(* gone compares with a count that stands still.)                           *)
NoStaleAnswer ==
  [][recipient'.input \in Name /\ recipient'.input # recipient.input
       => recipient'.resolving]_vars

(* The success screen names whom the transaction it links to has paid, over *)
(* retries, double clicks and failures, as long as no call outlives its     *)
(* preview (Back is there until the first phase, Close always) and no       *)
(* lookup its field.                                                        *)
SuccessNamesPayee ==
  View = "success" =>
    hash \in paid /\ (~strayed => recipient.address = call[hash].to)

(* Why it holds.  The lookup that counts is one of the text in the field, or  *)
(* the field was emptied since.                                               *)
LookupCurrent == awaited # None => recipient.input \in {awaited, None}

(* A debounce or a lookup that counts is one of a field that shows, and the   *)
(* debounce is for the text in it.                                            *)
FieldShown ==
  /\ timer # None => View = "form" /\ recipient.input = timer
  /\ awaited # None => View = "form"

(* A call that confirms has paid; the hash is of a call that is over, and only *)
(* RESET takes phase and hash back.                                           *)
HashBacked ==
  /\ \A c \in Call : call[c].pc = "confirm" => c \in paid
  /\ hash # None => hash \in paid /\ call[hash].pc = "done" /\ phase # "idle"

(* Until one strays, a call runs over the preview it was confirmed in, and so  *)
(* does the one that gave the hash: the recipient is still theirs.             *)
CallsAttended ==
  ~strayed =>
    /\ orphans = {}
    /\ \A c \in Call : call[c].pc \in Flying \/ c = hash =>
         open /\ preview /\ recipient.address = call[c].to

FormInv == TypeOK /\ LookupCurrent /\ FieldShown /\ HashBacked /\ CallsAttended
===============================================================================
