---------------------------- MODULE WalletSelection ----------------------------
(***************************************************************************)
(* Which of a user's wallets the browser acts with                          *)
(* (hooks/useWalletSelection.ts).  The provider keeps the selected address   *)
(* in React state, whether it was chosen in a ref, and the choice of each    *)
(* user in localStorage.  Two effects move it after a render: one restores   *)
(* the stored choice, one falls back on the best wallet.                     *)
(*                                                                         *)
(* Effects run after the commit they belong to, in the order of the code     *)
(* and with the values of that commit; what they set is batched, the last    *)
(* write wins, and is seen only by the next commit.  That is why commit,     *)
(* effects and the next commit are steps of their own here: a click may      *)
(* come between them.  Privy's lists (external) grow, shrink and are         *)
(* replaced in any order, the lists of the two chains apart.                 *)
(***************************************************************************)
EXTENDS Naturals, Sequences, SequencesExt

CONSTANTS
  User,         \* people who log in in this browser
  Wallet,       \* addresses
  Kind,         \* [Wallet -> {"external", "embedded", "solana"}]
  None,
  MaxChanges    \* how often the lists or the login change

VARIABLES
  eth, sol,     \* Privy's lists of connected wallets
  user,         \* who is logged in, or None
  stored,       \* [User -> Wallet \cup {None}]: localStorage
  selected,     \* selectedAddress of the last commit
  queued,       \* what the next commit sets it to, or "nothing"
  manual,       \* isManualSelection.current
  due,          \* effects of the last commit that have not run
  chosen,       \* history: the last click while it stands
  raced,        \* history: a click came between a commit and its effects
  changes

vars == <<eth, sol, user, stored, selected, queued, manual, due, chosen, raced, changes>>

Lists(S) == {q \in SeqOf(S, 2) : IsInjective(q)}
Evm == {w \in Wallet : Kind[w] # "solana"}

TypeOK ==
  /\ eth \in Lists(Evm) /\ sol \in Lists(Wallet \ Evm)
  /\ user \in User \cup {None}
  /\ stored \in [User -> Wallet \cup {None}]
  /\ selected \in Wallet \cup {None}
  /\ queued \in Wallet \cup {None, "nothing"}
  /\ manual \in BOOLEAN /\ raced \in BOOLEAN
  /\ due \subseteq {"restore", "auto"}
  /\ chosen \in Wallet \cup {None}
  /\ changes \in 0..MaxChanges

connectedWallets == eth \o sol
Connected == ToSet(connectedWallets)
Settled == due = {} /\ queued = "nothing"

(* connectedWallets.find(...) *)
OfKind(k) == {i \in DOMAIN connectedWallets : Kind[connectedWallets[i]] = k}
FirstOf(k) == connectedWallets[CHOOSE i \in OfKind(k) : \A j \in OfKind(k) : i <= j]
Fallback ==
  IF \E w \in Connected : Kind[w] = "external" THEN FirstOf("external")
  ELSE IF \E w \in Connected : Kind[w] = "embedded" THEN FirstOf("embedded")
  ELSE connectedWallets[1]

Init ==
  /\ eth = <<>> /\ sol = <<>> /\ user = None
  /\ stored \in [User -> Wallet \cup {None}]
  /\ selected = None /\ queued = "nothing" /\ manual = FALSE
  /\ due = {"restore", "auto"} /\ chosen = None /\ raced = FALSE /\ changes = 0

-------------------------------------------------------------------------------
(* A render takes up what was set; the auto-select effect depends on it. *)
Upcoming == IF queued = "nothing" THEN selected ELSE queued
TakeUp == queued' = "nothing" /\ selected' = Upcoming

(* Privy hands down other lists, or logs a user in or out, and the provider    *)
(* renders.  The lists may be new arrays of the same wallets.                  *)
ListsChange ==
  /\ due = {} /\ changes < MaxChanges /\ changes' = changes + 1
  /\ \/ eth' \in Lists(Evm) /\ UNCHANGED sol
     \/ sol' \in Lists(Wallet \ Evm) /\ UNCHANGED eth
  /\ TakeUp /\ due' = {"restore", "auto"}
  /\ chosen' = IF chosen \in ToSet(eth' \o sol') THEN chosen ELSE None
  /\ UNCHANGED <<user, stored, manual, raced>>

LoginChanges ==
  /\ due = {} /\ changes < MaxChanges /\ changes' = changes + 1
  /\ user' \in (User \cup {None}) \ {user}
  /\ TakeUp /\ due' = {"restore"} \cup (IF selected' = selected THEN {} ELSE {"auto"})
  /\ chosen' = None
  /\ UNCHANGED <<eth, sol, stored, manual, raced>>

(* selectWallet: the click of the menu of wallets. *)
SelectWallet(w) ==
  /\ w \in Connected /\ user # None
  /\ queued' = w /\ manual' = TRUE
  /\ stored' = [stored EXCEPT ![user] = w]
  /\ chosen' = w
  /\ raced' = (raced \/ due # {})
  /\ UNCHANGED <<eth, sol, user, selected, due, changes>>

-------------------------------------------------------------------------------
(* The effects of a commit: restore, then auto-select, each only when one of   *)
(* its dependencies changed.  The second sees the ref the first has just set,  *)
(* and the state from before.                                                  *)
Restores == "restore" \in due /\ user # None /\ stored[user] \in Connected
KeepsAny(chose) == selected \in Connected
Keeps(chose) == chose /\ selected \in Connected

RunEffects ==
  /\ due # {} /\ due' = {}
  /\ manual' = (manual \/ Restores)
  /\ queued' =
       IF "auto" \in due /\ Connected = {} THEN None
       ELSE IF "auto" \in due /\ ~Keeps(manual') THEN Fallback
       ELSE IF Restores THEN stored[user]
       ELSE queued
  /\ UNCHANGED <<eth, sol, user, stored, selected, chosen, raced, changes>>

(* The provider renders what was set, and nothing else. *)
Commit ==
  /\ due = {} /\ queued # "nothing"
  /\ TakeUp /\ due' = IF queued = selected THEN {} ELSE {"auto"}
  /\ UNCHANGED <<eth, sol, user, stored, manual, chosen, raced, changes>>

Next ==
  \/ ListsChange \/ LoginChanges \/ RunEffects \/ Commit
  \/ \E w \in Wallet : SelectWallet(w)

Spec == Init /\ [][Next]_vars

-------------------------------------------------------------------------------
(* What the effects keep between two renders: unless the auto-select is still  *)
(* due, the wallet that the next commit shows is connected, and without a      *)
(* choice it is the best.                                                      *)
RendersFollow ==
  IF "auto" \in due THEN queued \in Connected \cup {"nothing"}
  ELSE /\ IF Connected = {} THEN Upcoming = None ELSE Upcoming \in Connected
       /\ ~manual /\ Connected # {} => Upcoming = Fallback

(* A wallet clicked is the stored one of the user as long as it is connected,  *)
(* so that neither effect takes it back, unless the click fell between a       *)
(* commit and its effects.                                                     *)
ClickStands ==
  chosen # None =>
    /\ manual /\ user # None /\ stored[user] = chosen /\ chosen \in Connected
    /\ ~raced => Upcoming = chosen /\ (due # {} => queued = "nothing")

SelectionInv == TypeOK /\ RendersFollow /\ ClickStands

(* Once the renders have settled, a wallet is selected exactly when one is     *)
(* connected, and it is connected.  Without a choice it is the best one by     *)
(* the order of the code, however the lists arrived; and a wallet clicked      *)
(* stays selected while it stays connected, unless the click fell between a    *)
(* commit and its effects.                                                     *)
SelectionSettles ==
  Settled =>
    /\ IF Connected = {} THEN selected = None ELSE selected \in Connected
    /\ ~manual /\ Connected # {} => selected = Fallback
    /\ chosen # None /\ ~raced => selected = chosen
===============================================================================
