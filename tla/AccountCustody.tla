--------------------------- MODULE AccountCustody ---------------------------
(***************************************************************************)
(* What the console promises about the accounts it manages, without        *)
(* rounds, batches, budgets or failures: it changes only accounts that it  *)
(* has taken, takes none that a person has claimed unless it manages all,  *)
(* remembers each as it was when it was taken, and keeps that memory until *)
(* the account is handed back.                                             *)
(***************************************************************************)
EXTENDS Integers

CONSTANTS Accounts, Settings, Nothing, TakesOver   (* BOOLEAN: all accounts *)

VARIABLES
    settings,  (* of each account                                       *)
    owner,     (* "none", "console", or a person who has taken it back  *)
    before,    (* the settings to which an account may be returned      *)
    edited,    (* the accounts that a person has changed                *)
    edits      (* and how often                                         *)

custodyVars == <<settings, owner, before, edited, edits>>

CustodyInit ==
    /\ settings \in [Accounts -> Settings]
    /\ owner = [a \in Accounts |-> "none"]
    /\ before = [a \in Accounts |-> Nothing]
    /\ edited = {} /\ edits = 0

Passes(a, to) == owner' = [owner EXCEPT ![a] = to] /\ UNCHANGED <<settings, edited, edits>>
Claimed(a) == owner[a] = "person" /\ ~TakesOver

(* What a person is changing may be remembered as it was. *)
Take(a) ==
    /\ owner[a] # "console" /\ ~Claimed(a)
    /\ Passes(a, "console")
    /\ \E s \in Settings :
         /\ a \notin edited => s = settings[a]
         /\ before' = [before EXCEPT ![a] = s]

HandBack(a) ==
    /\ ~Claimed(a)
    /\ Passes(a, "none") /\ before' = [before EXCEPT ![a] = Nothing]

GiveUp(a) ==
    /\ owner[a] = "console"
    /\ Passes(a, "person") /\ UNCHANGED before

(* Several accounts may be written at once. *)
Write ==
    /\ settings' \in [Accounts -> Settings]
    /\ \A a \in Accounts : settings'[a] # settings[a] => owner[a] = "console"
    /\ UNCHANGED <<owner, before, edited, edits>>

Edit(a) ==
    /\ \E s \in Settings : settings' = [settings EXCEPT ![a] = s]
    /\ edited' = edited \cup {a} /\ edits' = edits + 1
    /\ UNCHANGED <<owner, before>>

CustodyNext ==
    \/ Write
    \/ \E a \in Accounts : Take(a) \/ HandBack(a) \/ GiveUp(a) \/ Edit(a)

CustodySpec == CustodyInit /\ [][CustodyNext]_custodyVars
=============================================================================
