------------------------------- MODULE EarnModal -------------------------------
(***************************************************************************)
(* The dialog in which a user deposits into a vault and exits positions     *)
(* (components/earn-yield) over the hooks that call the server               *)
(* (hooks/useOptimizer.ts).                                                 *)
(*                                                                         *)
(* React keeps the state of a part only while it is on screen: the deposit   *)
(* form unmounts when its own deposit starts, the list of positions when     *)
(* another tab or step is shown, everything when the dialog closes.  The     *)
(* calls they started go on, and what they report to an unmounted part is    *)
(* lost; the dialog's own state lives on behind a closed dialog.             *)
(*                                                                         *)
(* The server accepts or refuses; a redeem of more than is held   *)
(* is refused.  A deposit adds one share.                                    *)
(***************************************************************************)
EXTENDS Naturals, FiniteSets

CONSTANTS
  Vault,        \* vaults on offer
  Call,         \* requests that can be under way at once
  None,
  MaxShares     \* shares a vault ever holds here; a half of one is too little

VARIABLES
  open, initialYield,               \* props the dashboard gives
  step, activeTab, selectedYield,   \* modalReducer
  shut,                             \* selectedYield was paused when it was picked
  amount,                           \* the amount field: "valid", or "empty" or too much
  card,                             \* [Vault -> state of the position's card]
  call,                             \* [Call -> request under way]
  held, seen,                       \* shares on chain, and as last fetched
  paused,                           \* vaults that take no deposits, as last fetched
  agent, status,                    \* autoOptimize on the server, and as last fetched
  unheard                           \* history: this "processing" waits for a failed call

vars == <<open, initialYield, step, activeTab, selectedYield, shut, amount, card, call,
          held, seen, paused, agent, status, unheard>>
modal == <<open, initialYield, step, activeTab, selectedYield, shut>>

Agents == {"unregistered", "off", "on"}
DEFAULT_EXIT_STATE == [state |-> "idle", quarters |-> 4]
Idle == [pc |-> "idle", vault |-> None, shares |-> 0, attached |-> FALSE]
ExitState == {"idle", "confirming", "loading", "success", "failed"}

TypeOK ==
  /\ open \in BOOLEAN /\ initialYield \in Vault \cup {None}
  /\ step \in {"list", "deposit", "processing", "success"}
  /\ activeTab \in {"opportunities", "positions"}
  /\ selectedYield \in Vault \cup {None} /\ shut \in BOOLEAN
  /\ amount \in {"empty", "valid"}
  /\ card \in [Vault -> [state : ExitState, quarters : 1..4]]
  /\ call \in [Call -> [pc : {"idle", "deposit", "refetch", "redeem", "register", "toggle"},
                        vault : Vault \cup {None}, shares : 0..MaxShares, attached : BOOLEAN]]
  /\ held \in [Vault -> 0..MaxShares] /\ seen \in [Vault -> 0..MaxShares]
  /\ paused \subseteq Vault
  /\ agent \in Agents /\ status \in Agents /\ unheard \in BOOLEAN

(* What is on screen. *)
ListShown(o, s, t) == o /\ s = "list" /\ t = "positions"
AgentShown(o, s, t) == o /\ s = "list" /\ t = "opportunities"
OptimizeShown == AgentShown(open, step, activeTab)
PromptShown ==
  open /\ step = "deposit" /\ selectedYield # None /\ ~shut /\ status # "on"
FormShown ==
  open /\ step = "deposit" /\ selectedYield # None /\ ~shut /\ status = "on"

(* A part that leaves the screen takes its state along; its calls go on, and    *)
(* no longer report to it.                                                      *)
Unmount(calls) ==
  LET stays(part(_, _, _)) == part(open, step, activeTab) /\ part(open', step', activeTab')
      deaf(c) == \/ call[c].pc = "redeem" /\ ~stays(ListShown)
                 \/ call[c].pc \in {"register", "toggle"} /\ ~stays(AgentShown)
  IN /\ card' = IF stays(ListShown) THEN card ELSE [v \in Vault |-> DEFAULT_EXIT_STATE]
     /\ call' = [c \in Call |-> IF deaf(c) THEN [calls[c] EXCEPT !.attached = FALSE] ELSE calls[c]]
     /\ amount' = "empty"
     /\ unheard' = (unheard /\ step' = "processing")

Init ==
  /\ open = FALSE /\ initialYield = None
  /\ step = "list" /\ activeTab = "opportunities" /\ selectedYield = None
  /\ shut = FALSE /\ amount = "empty" /\ card = [v \in Vault |-> DEFAULT_EXIT_STATE]
  /\ call = [c \in Call |-> Idle]
  /\ held \in [Vault -> {0, MaxShares}] /\ seen = held /\ paused \in SUBSET Vault
  /\ agent \in Agents /\ status = agent /\ unheard = FALSE

-------------------------------------------------------------------------------
(* A paused vault is offered only to those who hold it: on the dashboard by a  *)
(* section of its own, in the dialog's list by a row that stays enabled.       *)
InGrid(v) == v \in paused => seen[v] > 0
Enabled(v) == v \notin paused \/ seen[v] > 0

(* The dashboard opens the dialog, on a vault or on the list; closing resets   *)
(* the dialog's own state, in whatever step it is.                             *)
Open(v) ==
  /\ ~open /\ (v # None => InGrid(v)) /\ open' = TRUE /\ initialYield' = v
  /\ IF v = None THEN UNCHANGED <<step, selectedYield, shut>>
     ELSE step' = "deposit" /\ selectedYield' = v /\ shut' = (v \in paused)
  /\ UNCHANGED <<activeTab, held, seen, agent, status, paused>> /\ Unmount(call)

HandleDone ==
  /\ open /\ open' = FALSE /\ initialYield' = None
  /\ step' = "list" /\ activeTab' = "opportunities" /\ selectedYield' = None /\ shut' = FALSE
  /\ UNCHANGED <<held, seen, agent, status, paused>> /\ Unmount(call)

SetTab(t) ==
  /\ open /\ step = "list" /\ activeTab # t /\ activeTab' = t
  /\ UNCHANGED <<open, initialYield, step, selectedYield, shut, held, seen, agent, status, paused>>
  /\ Unmount(call)

SelectYield(v) ==
  /\ OptimizeShown /\ Enabled(v)
  /\ step' = "deposit" /\ selectedYield' = v /\ shut' = (v \in paused)
  /\ UNCHANGED <<open, initialYield, activeTab, held, seen, agent, status, paused>> /\ Unmount(call)

HandleBack ==
  /\ open /\ step = "deposit" /\ initialYield = None
  /\ step' = "list" /\ selectedYield' = None /\ shut' = FALSE
  /\ UNCHANGED <<open, initialYield, activeTab, held, seen, agent, status, paused>> /\ Unmount(call)

(* The notice on a paused vault leads to the position held in it. *)
ViewPositions ==
  /\ open /\ step = "deposit" /\ selectedYield # None /\ shut /\ seen[selectedYield] > 0
  /\ step' = "list" /\ selectedYield' = None /\ shut' = FALSE /\ activeTab' = "positions"
  /\ UNCHANGED <<open, initialYield, held, seen, agent, status, paused>> /\ Unmount(call)

-------------------------------------------------------------------------------
(* The deposit form. *)
SetAmount(a) ==
  /\ FormShown /\ amount' = a
  /\ UNCHANGED <<modal, card, call, held, seen, agent, status, unheard, paused>>

isAmountValid == amount = "valid"

HandleDeposit(c) ==
  /\ FormShown /\ isAmountValid /\ call[c].pc = "idle"
  /\ step' = "processing" /\ amount' = "empty" /\ unheard' = FALSE
  /\ call' = [call EXCEPT ![c] = [Idle EXCEPT !.pc = "deposit", !.vault = selectedYield]]
  /\ UNCHANGED <<open, initialYield, activeTab, selectedYield, shut, card, held, seen, agent, status, paused>>

(* A refused deposit, or a call that never reached the server, is told to the  *)
(* form only, which this very deposit has unmounted.                           *)
DepositFails(c) ==
  /\ call[c].pc = "deposit" /\ call' = [call EXCEPT ![c] = Idle]
  /\ unheard' = (step = "processing" /\ \A d \in Call \ {c} : call[d].pc \notin {"deposit", "refetch"})
  /\ UNCHANGED <<modal, amount, card, held, seen, agent, status, paused>>

Deposited(c) ==
  /\ call[c].pc = "deposit" /\ call' = [call EXCEPT ![c].pc = "refetch"]
  /\ held' = [held EXCEPT ![call[c].vault] = IF @ < MaxShares THEN @ + 1 ELSE @]
  /\ UNCHANGED <<modal, amount, card, seen, agent, status, unheard, paused>>

(* After the balance is fetched again the dialog shows its success, open or    *)
(* closed, and whatever it showed meanwhile.                                   *)
AnnouncedIfMounted(c) == FormShown
Announced(c) == TRUE

HandleDepositSuccess(c) ==
  /\ call[c].pc = "refetch"
  /\ step' = IF Announced(c) THEN "success" ELSE step
  /\ UNCHANGED <<open, initialYield, activeTab, selectedYield, shut, held, seen, agent, status, paused>>
  /\ Unmount([call EXCEPT ![c] = Idle])

-------------------------------------------------------------------------------
(* A position's card: exit, choose how much, confirm; try again after failure. *)
CardShown(v) == ListShown(open, step, activeTab) /\ seen[v] > 0

HandleButton(v) ==
  /\ CardShown(v) /\ card[v].state \in {"idle", "failed"}
  /\ card' = [card EXCEPT ![v].state = "confirming"]
  /\ UNCHANGED <<modal, amount, call, held, seen, agent, status, unheard, paused>>

SelectPercentage(v, q) ==
  /\ CardShown(v) /\ card[v].state = "confirming"
  /\ card' = [card EXCEPT ![v].quarters = q]
  /\ UNCHANGED <<modal, amount, call, held, seen, agent, status, unheard, paused>>

SharesToRedeem(v) == (seen[v] * card[v].quarters) \div 4

HandleExit(v, c) ==
  /\ CardShown(v) /\ card[v].state = "confirming"
  /\ IF SharesToRedeem(v) = 0
     THEN card' = [card EXCEPT ![v].state = "failed"] /\ UNCHANGED call
     ELSE /\ call[c].pc = "idle"
          /\ card' = [card EXCEPT ![v].state = "loading"]
          /\ call' = [call EXCEPT ![c] =
               [pc |-> "redeem", vault |-> v, shares |-> SharesToRedeem(v), attached |-> TRUE]]
  /\ UNCHANGED <<modal, amount, held, seen, agent, status, unheard, paused>>

(* The answer reaches the card that asked, if it is still there. *)
Tell(c, answer) ==
  /\ card' = IF call[c].attached THEN [card EXCEPT ![call[c].vault].state = answer] ELSE card
  /\ call' = [call EXCEPT ![c] = Idle]

Redeemed(c) ==
  /\ call[c].pc = "redeem" /\ call[c].shares <= held[call[c].vault]
  /\ Tell(c, "success")
  /\ held' = [held EXCEPT ![call[c].vault] = @ - call[c].shares]
  /\ UNCHANGED <<modal, amount, seen, agent, status, unheard, paused>>

ExitFails(c) ==
  /\ call[c].pc = "redeem" /\ Tell(c, "failed")
  /\ UNCHANGED <<modal, amount, held, seen, agent, status, unheard, paused>>

-------------------------------------------------------------------------------
(* The switch of the agent registers first, then asks for the opposite of what *)
(* was last fetched; the deposit form offers to register whoever has the agent *)
(* off, registered or not.  A registration switches the agent on by a second   *)
(* request.  A button is disabled while its own request is under way, until    *)
(* its part is mounted anew.                                                   *)
Toggling(requests) == \E c \in Call : call[c].pc \in requests /\ call[c].attached

HandleToggle(c) ==
  /\ \/ OptimizeShown /\ ~Toggling({"register", "toggle"})
     \/ PromptShown /\ ~Toggling({"register"})
  /\ call[c].pc = "idle"
  /\ call' = [call EXCEPT ![c] =
       [Idle EXCEPT !.pc = IF PromptShown \/ status = "unregistered" THEN "register" ELSE "toggle",
                    !.shares = IF status = "on" THEN 0 ELSE 1, !.attached = TRUE]]
  /\ UNCHANGED <<modal, amount, card, held, seen, agent, status, unheard, paused>>

Registered(c) ==
  /\ call[c].pc = "register"
  /\ agent' = IF agent = "on" THEN "on" ELSE "off"
  /\ call' = [call EXCEPT ![c].pc = "toggle", ![c].shares = 1]
  /\ UNCHANGED <<modal, amount, card, held, seen, status, unheard, paused>>

Toggled(c) ==
  /\ call[c].pc = "toggle" /\ agent # "unregistered"
  /\ agent' = IF call[c].shares = 1 THEN "on" ELSE "off"
  /\ call' = [call EXCEPT ![c] = Idle]
  /\ UNCHANGED <<modal, amount, card, held, seen, status, unheard, paused>>

AgentCallFails(c) ==
  /\ call[c].pc \in {"register", "toggle"} /\ call' = [call EXCEPT ![c] = Idle]
  /\ UNCHANGED <<modal, amount, card, held, seen, agent, status, unheard, paused>>

(* Queries are fetched again after a mutation, and every minute.               *)
FetchPositions ==
  /\ seen # held /\ seen' = held
  /\ UNCHANGED <<modal, amount, card, call, held, agent, status, unheard, paused>>

FetchStatus ==
  /\ status # agent /\ status' = agent
  /\ UNCHANGED <<modal, amount, card, call, held, seen, agent, unheard, paused>>

(* The list is fetched again: a vault has been paused or opened meanwhile.  The *)
(* form keeps the entry it was opened on.                                       *)
FetchYields(v) ==
  /\ paused' = (paused \ {v}) \cup ({v} \ paused)
  /\ UNCHANGED <<modal, amount, card, call, held, seen, agent, status, unheard>>

(* Elsewhere: the session expires or is revoked. *)
RegistrationCleared ==
  /\ agent # "unregistered" /\ agent' = "unregistered"
  /\ UNCHANGED <<modal, amount, card, call, held, seen, status, unheard, paused>>

Answer(c) ==
  \/ DepositFails(c) \/ Deposited(c) \/ HandleDepositSuccess(c)
  \/ Redeemed(c) \/ ExitFails(c) \/ Registered(c) \/ Toggled(c) \/ AgentCallFails(c)

Next ==
  \/ \E v \in Vault \cup {None} : Open(v)
  \/ HandleDone \/ HandleBack \/ ViewPositions
  \/ FetchPositions \/ FetchStatus \/ RegistrationCleared
  \/ \E t \in {"opportunities", "positions"} : SetTab(t)
  \/ \E v \in Vault : SelectYield(v) \/ HandleButton(v) \/ FetchYields(v)
  \/ \E a \in {"empty", "valid"} : SetAmount(a)
  \/ \E v \in Vault, q \in 1..4 : SelectPercentage(v, q)
  \/ \E c \in Call : HandleDeposit(c) \/ HandleToggle(c) \/ Answer(c)
  \/ \E v \in Vault, c \in Call : HandleExit(v, c)

(* Every request ends, with an answer or an error; the user owes nothing.      *)
Spec == Init /\ [][Next]_vars /\ \A c \in Call : WF_vars(Answer(c))

-------------------------------------------------------------------------------
(* What the dialog shows as running comes to an end.  A card says "loading"    *)
(* exactly while one redeem of its position is under way that will report to   *)
(* it, and is answered or gone at last; a deposit being processed leads on to  *)
(* success, unless it fails: its error goes to the form it has unmounted, and  *)
(* "Processing..." stays until the user closes the dialog.                     *)
Reporting(v) == {c \in Call : call[c].pc = "redeem" /\ call[c].vault = v /\ call[c].attached}

SpinnersEnd ==
  /\ []TypeOK
  /\ [](\A v \in Vault : Cardinality(Reporting(v)) = IF card[v].state = "loading" THEN 1 ELSE 0)
  /\ \A v \in Vault : (card[v].state = "loading") ~> (card[v].state # "loading")
  /\ (step = "processing") ~> (step # "processing" \/ unheard)
===============================================================================
