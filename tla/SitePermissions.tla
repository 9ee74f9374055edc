---------------------------- MODULE SitePermissions ----------------------------
(****************************************************************************)
(* What one web site may do with the wallet: its permission record in       *)
(* chrome.storage.local, the requests that read it, ask the user and write  *)
(* it back (dapp-api's wallet-handler.ts and nostr-tiers.ts), and the two   *)
(* ways of taking it away (disconnect, and Settings' list of sites).  The   *)
(* records of two sites are separate keys, so one site is enough.           *)
(*                                                                          *)
(* A request is a coroutine of the service worker: it reads the record, may *)
(* stand in line for the approval window (DappApproval), and ends in one    *)
(* write of the WHOLE record, the one it read with what the user allowed.   *)
(* A request that only touches the record is answered before its write.     *)
(* Left out: lastUsedAt, grantedAt and the site's title, which Nostr        *)
(* identity the user shows, and the requests that write nothing           *)
(* (isConnected, getBackend, claimPublicTip).                               *)
(****************************************************************************)
EXTENDS Naturals, Sequences

CONSTANTS
  Request,      \* calls of the page, numbered as they come
  Asset,        \* chains whose keys a site may see
  Kind,         \* kinds of Nostr events
  Grantable,    \* NOSTR_SESSION_GRANTABLE_KINDS
  None,         \* no record
  MaxRemovals   \* bound: disconnections and revocations

VARIABLES
  perm,         \* storage.local smirk:dapp:origin:<o>: the scopes granted, or None
  req,          \* req[r]: the call, what it read, what it is to write
  line,         \* requests standing in line for the approval window, or in it
  approved,     \* history: scopes the user allowed since the last removal
  carried,      \* history: scopes in the hands of the requests under way at it
  alone,        \* history: no two requests were ever under way together
  removals      \* how often the record was removed

vars == <<perm, req, line, approved, carried, alone, removals>>

(* A record is the set of its scopes: the assets, the kinds its session may *)
(* sign, nostr, nostrCryptSeen ("crypt") and e2ee.                          *)
Scope == Asset \cup Kind \cup {"nostr", "crypt", "e2ee"}

(* Calls of the page.  keys: getPublicKeys and getAddresses; sign:          *)
(* signMessage; pay: requestPayment; event: signNostrEvent; crypt:          *)
(* nostrEncrypt and nostrDecrypt.                                           *)
Call ==
  [method : {"connect", "signIn"}, wants : (SUBSET Asset) \ {{}}]
    \cup [method : {"pay"}, wants : {{a} : a \in Asset}]
    \cup [method : {"event"}, wants : {{k} : k \in Kind}]
    \cup [method : {"keys", "sign", "npub", "encKey", "sealOpen", "crypt"}, wants : {{}}]

Unmade == [at |-> "unmade", method |-> "", wants |-> {}, saw |-> None, next |-> None]
Over   == [Unmade EXCEPT !.at = "over"]

Scopes(p) == IF p = None THEN {} ELSE p

UnderWay == {r \in Request : req[r].at \notin {"unmade", "over"}}

-------------------------------------------------------------------------------
(* The handler, up to the prompt.                                           *)

(* permissions.get: each handler's first await.                             *)
Get(r, call) ==
  /\ req[r].at = "unmade" /\ \A q \in Request : q < r => req[q].at # "unmade"
  /\ req' = [req EXCEPT ![r] =
       [at |-> "read", method |-> call.method, wants |-> call.wants, saw |-> perm, next |-> perm]]
  /\ alone' = (alone /\ UnderWay = {})
  /\ UNCHANGED <<perm, line, approved, carried, removals>>

(* hasAssetsAuthorized: every asset asked for.                              *)
HasAssetsAuthorized(p, wants) == p # None /\ wants \subseteq p

(* Calls refused for what the record they read lacks: requireOriginPermission*)
(* and the scope checks after it.                                           *)
Unauthorized(c) ==
  \/ c.method \notin {"connect", "signIn", "npub"} /\ c.saw = None
  \/ c.method = "pay" /\ ~(c.wants \subseteq Scopes(c.saw))
  \/ c.method \in {"event", "crypt"} /\ "nostr" \notin Scopes(c.saw)
  \/ c.method = "sealOpen" /\ "e2ee" \notin Scopes(c.saw)

(* Calls answered from the record, no prompt: an unlocked wallet's.         *)
FastPath(c) ==
  \/ c.method = "keys"
  \/ c.method = "connect" /\ HasAssetsAuthorized(c.saw, c.wants)
  \/ c.method = "npub" /\ "nostr" \in Scopes(c.saw)

Refuse(r) ==
  /\ req[r].at = "read" /\ Unauthorized(req[r])
  /\ req' = [req EXCEPT ![r] = Over]
  /\ UNCHANGED <<perm, line, approved, carried, alone, removals>>

(* The wallet is locked: only what never prompts is refused.                *)
Locked(r) ==
  /\ req[r].at = "read" /\ req[r].method = "keys"
  /\ req' = [req EXCEPT ![r] = Over]
  /\ UNCHANGED <<perm, line, approved, carried, alone, removals>>

(* touch: the page has its answer, the record read is to be written again.  *)
Touch(r) ==
  /\ req[r].at = "read" /\ ~Unauthorized(req[r]) /\ FastPath(req[r])
  /\ req' = [req EXCEPT ![r].at = "touch"]
  /\ UNCHANGED <<perm, line, approved, carried, alone, removals>>

(* deps.approval.  While another request has the window only a site with a  *)
(* record may wait.                                                         *)
Ask(r) ==
  /\ req[r].at = "read" /\ ~Unauthorized(req[r]) /\ req[r].method # "keys"
  /\ \/ /\ line = <<>> \/ perm # None
        /\ req' = [req EXCEPT ![r].at = "prompt"]
        /\ line' = Append(line, r)
     \/ /\ line # <<>> /\ perm = None
        /\ req' = [req EXCEPT ![r] = Over]
        /\ UNCHANGED line
  /\ UNCHANGED <<perm, approved, carried, alone, removals>>

-------------------------------------------------------------------------------
(* The prompt, and what an approval writes.                                 *)

InWindow(r) == line # <<>> /\ Head(line) = r /\ req[r].at = "prompt"

(* Mutant: what the approval screen offers is stored as it comes.           *)
MergeNostrSession_Unfiltered(seen, grant, live) ==
  (seen \ (IF live THEN {} ELSE Kind)) \cup grant

(* mergeNostrSession: a live session keeps its kinds, and money kinds never *)
(* enter one.                                                               *)
MergeNostrSession(seen, grant, live) ==
  (seen \ (IF live THEN {} ELSE Kind)) \cup (grant \cap Grantable)

(* Mutant: connect writes a fresh record, as it once did.                   *)
Granting_Fresh(c) ==
  CASE c.method = "connect" -> {[gives |-> g, next |-> g] : g \in (SUBSET c.wants) \ {{}}}
    [] c.method = "npub"    -> {[gives |-> {"nostr"}, next |-> Scopes(c.saw) \cup {"nostr"}]}
    [] OTHER                -> {[gives |-> {}, next |-> c.saw]}

(* What the user may allow by approving c, and the record written then.     *)
(* Of the assets a connect asks for he may pick some; sign-in of a site     *)
(* that has them asks for those it has; an hour's session is his choice.    *)
Granting(c) ==
  LET adds(g) == [gives |-> g, next |-> Scopes(c.saw) \cup g]
      again == [gives |-> {}, next |-> c.saw]
  IN  CASE c.method = "connect"  -> {adds(g) : g \in (SUBSET c.wants) \ {{}}}
        [] c.method = "signIn"   ->
             {adds(IF HasAssetsAuthorized(c.saw, c.wants) THEN c.saw \cap Asset ELSE c.wants)}
        [] c.method = "npub"     -> {adds({"nostr"})}
        [] c.method = "event"    ->
             {again} \cup {[gives |-> c.wants \cap Grantable,
                            next |-> MergeNostrSession(c.saw, c.wants, live)] : live \in BOOLEAN}
        [] c.method = "encKey"   -> {IF "e2ee" \in c.saw THEN again ELSE adds({"e2ee"})}
        [] c.method = "crypt"    -> {IF "crypt" \in c.saw THEN again ELSE adds({"crypt"})}
        [] c.method \in {"sign", "pay", "sealOpen"} -> {again}

(* The user approves, or the screen does by itself (sealOpen, a repeated    *)
(* encKey or crypt); the handler has the record it is to write.             *)
Approve(r) ==
  /\ InWindow(r)
  /\ \E g \in Granting(req[r]) :
       /\ req' = [req EXCEPT ![r].at = "write", ![r].next = g.next]
       /\ approved' = approved \cup g.gives
  /\ line' = Tail(line)
  /\ UNCHANGED <<perm, carried, alone, removals>>

(* The user denies, the window is closed, or the call in it fails.          *)
Deny(r) ==
  /\ InWindow(r)
  /\ req' = [req EXCEPT ![r] = Over]
  /\ line' = Tail(line)
  /\ UNCHANGED <<perm, approved, carried, alone, removals>>

(* permissions.set: a read for grantedAt, then the whole record.            *)
Set(r) ==
  /\ req[r].at \in {"write", "touch"}
  /\ perm' = req[r].next
  /\ req' = [req EXCEPT ![r] = Over]
  /\ UNCHANGED <<line, approved, carried, alone, removals>>

(* The browser evicts the service worker: its requests, and what the user   *)
(* allowed but they had not written, are gone.                              *)
Evict ==
  /\ UnderWay # {}
  /\ req' = [r \in Request |-> IF r \in UnderWay THEN Over ELSE req[r]]
  /\ line' = <<>>
  /\ approved' = approved \cap Scopes(perm)
  /\ UNCHANGED <<perm, carried, alone, removals>>

(* disconnect, or Settings' revoke.                                         *)
Remove ==
  /\ perm # None /\ removals < MaxRemovals
  /\ perm' = None
  /\ approved' = {}
  /\ carried' = UNION {Scopes(req[r].next) : r \in UnderWay}
  /\ removals' = removals + 1
  /\ UNCHANGED <<req, line, alone>>

-------------------------------------------------------------------------------
Init ==
  /\ perm = None
  /\ req = [r \in Request |-> Unmade]
  /\ line = <<>>
  /\ approved = {} /\ carried = {} /\ alone = TRUE
  /\ removals = 0

Next ==
  \/ \E r \in Request :
       \/ \E call \in Call : Get(r, call)
       \/ Refuse(r) \/ Locked(r) \/ Touch(r) \/ Ask(r) \/ Approve(r) \/ Deny(r) \/ Set(r)
  \/ Evict \/ Remove

Spec == Init /\ [][Next]_vars

-------------------------------------------------------------------------------
(* Properties.                                                              *)

(* A site holds no scope the user did not allow: every one in its record    *)
(* was approved since the last disconnection or revocation, or was in the   *)
(* hands of a request already under way at it.  In particular a site that   *)
(* was quiet then has to ask again from scratch, and no session covers an   *)
(* event that spends or signs in.                                           *)
OnlyApproved == Scopes(perm) \subseteq approved \cup carried

(* "connect() only ever widens" (wallet-handler.ts:157): while a site's     *)
(* requests come one after another, no write of one loses what an earlier   *)
(* prompt granted, so nothing is asked twice.  Sessions run out, and an     *)
(* evicted worker takes with it what it had not written.                    *)
NothingLost ==
  alone /\ UnderWay = {} => approved \ Kind \subseteq Scopes(perm)
================================================================================
