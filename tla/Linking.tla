------------------------------ MODULE Linking -------------------------------
(* How a Telegram account is linked to a user, and a group made the         *)
(* administrators' group (telegram/service.py, telegram/router.py).  The    *)
(* user asks for a challenge in the application and says it to the bot;     *)
(* Telegram posts the update to the webhook, which links the account, or    *)
(* offers the group for a confirmation in the application.                  *)
(*                                                                          *)
(* The webhook holds the row of the challenge and needs that of the user,   *)
(* for the foreign key of the link; a user's own request holds the user's   *)
(* row and deletes the challenge.  PostgreSQL fails one of the two when     *)
(* they wait for each other.  Meanwhile administrators change the bot.      *)
EXTENDS Naturals, Sequences

CONSTANTS
    Owners, Hooks,     \* users who link; webhook requests handled at once
    Accounts, Chats,  \* private accounts and groups at Telegram
    NoOne,            \* none of them
    MaxBots,          \* bound on the bots configured one after the other
    MaxPairings,      \* bound on challenges
    MaxUpdates,       \* bound on updates that Telegram has to deliver
    MaxDisconnects,   \* bound on a user's disconnects
    MaxSaves          \* bound on writes of the configuration

ASSUME LinkingAssumption ==
    /\ NoOne \notin Accounts \cup Chats
    /\ \A b \in {MaxBots, MaxPairings, MaxUpdates, MaxDisconnects, MaxSaves} : b \in Nat

VARIABLES
    bot,         \* the settings group "telegram"
    pairings,    \* telegram_pairings: one row for each user and kind
    linked,      \* telegram_links
    challenges,  \* challenges issued so far
    updates,     \* what was said to the bot; update n is the n-th
    received,    \* telegram_updates: the updates whose receipt is committed
    hook,        \* each webhook request
    ask,         \* each user's request that holds the user's row
    confirming,  \* what each user's confirmation has read of the settings
    checking,    \* what an administrator's test or registration has read
    disconnects  \* history: each user's disconnects

linkVars == <<bot, pairings, linked, challenges, updates, received, hook, ask, confirming,
              checking, disconnects>>

Kinds == {"PRIVATE", "GROUP"}
(* A token is one bot's, so the bot's number (botId) stands for both; the   *)
(* token is encrypted anew, under another cipher, whenever it is saved.     *)
(* "offered" is history: the bot that the group was offered to.             *)
Bot == [token : 0..MaxBots, id : 0..MaxBots, on : BOOLEAN, group : Chats \cup {NoOne},
        offered : 0..MaxBots, cipher : 0..MaxSaves,
        webhook : {"not_registered", "pending", "registered"}]
(* "era" is history: how often the user had disconnected by then.           *)
Pairing == [challenge : 1..MaxPairings, bot : 1..MaxBots, used : BOOLEAN, expired : BOOLEAN,
            candidate : Chats \cup {NoOne}, era : 0..MaxDisconnects]
Link == [account : Accounts, bot : 1..MaxBots, era : 0..MaxDisconnects]
NoRow == {}
(* A table row is the singleton of the row, or the empty set.               *)
HookIdle == [step |-> "none", update |-> 0, bot |-> 0, pairing |-> {}]
AskIdle == [step |-> "none", kind |-> "PRIVATE", bot |-> 0, linked |-> FALSE]

LinkingTypeOK ==
    /\ bot \in Bot /\ challenges \in 0..MaxPairings
    /\ \A u \in Owners :
          /\ \A k \in Kinds : pairings[u, k] = NoRow \/ \E p \in Pairing : pairings[u, k] = {p}
          /\ linked[u] = NoRow \/ \E l \in Link : linked[u] = {l}
          /\ confirming[u] \in {{}} \cup {{c} : c \in 0..MaxSaves}
    /\ updates \in Seq([challenge : 1..MaxPairings, from : Accounts \cup Chats])
    /\ received \subseteq 1..MaxUpdates
    /\ disconnects \in [Owners -> 0..MaxDisconnects]

Owned(p) == p[1]
(* The row that a challenge names, if it is still there.                    *)
Named(c) == {k \in Owners \X Kinds : \E p \in pairings[k] : p.challenge = c}
LockedByHook(k) == \E h \in Hooks : hook[h].pairing = {k}
PairingFree(k) == ~LockedByHook(k) /\ (k[2] = "GROUP" => confirming[k[1]] = {})
Linked(account) == \E u \in Owners : \E l \in linked[u] : l.account = account
UserRowFree(u) == ask[u].step = "none"

(* save_internal and update_app_config encrypt the token anew.              *)
SaveBot(new) ==
    /\ bot.cipher < MaxSaves
    /\ bot' = [new EXCEPT !.cipher = bot.cipher + 1]

-----------------------------------------------------------------------------
(* The application's side: private_pair and create_pairing.                 *)
BeginPair(u, k) ==
    /\ UserRowFree(u)
    /\ bot.id # 0 /\ challenges < MaxPairings
    /\ k = "PRIVATE" => linked[u] = NoRow
    /\ ask' = [ask EXCEPT ![u] = [step |-> "pairing", kind |-> k, bot |-> bot.id, linked |-> FALSE]]
    /\ UNCHANGED <<bot, pairings, linked, challenges, updates, received, hook, confirming,
                   checking, disconnects>>
FinishPair(u) ==
    LET k == ask[u].kind IN
    /\ ask[u].step = "pairing" /\ PairingFree(<<u, k>>) /\ challenges < MaxPairings
    /\ pairings' = [pairings EXCEPT ![<<u, k>>] =
                      {[challenge |-> challenges + 1, bot |-> ask[u].bot, used |-> FALSE,
                        expired |-> FALSE, candidate |-> NoOne, era |-> disconnects[u]]}]
    /\ challenges' = challenges + 1
    /\ ask' = [ask EXCEPT ![u] = AskIdle]
    /\ UNCHANGED <<bot, linked, updates, received, hook, confirming, checking, disconnects>>

(* private_disconnect: the link is read under the user's row, then it and   *)
(* the challenges are deleted.                                              *)
BeginDisconnect(u) ==
    /\ UserRowFree(u) /\ disconnects[u] < MaxDisconnects
    /\ ask' = [ask EXCEPT ![u] = [AskIdle EXCEPT !.step = "leaving", !.linked = linked[u] # NoRow]]
    /\ UNCHANGED <<bot, pairings, linked, challenges, updates, received, hook, confirming,
                   checking, disconnects>>
(* Mutant: the challenges are left to expire.                               *)
ChallengesKept(u) == pairings
WithoutChallenges(u) ==
    [k \in Owners \X Kinds |-> IF Owned(k) = u THEN NoRow ELSE pairings[k]]
FinishDisconnect(u) ==
    /\ ask[u].step = "leaving" /\ \A k \in Kinds : PairingFree(<<u, k>>)
    /\ linked' = [linked EXCEPT ![u] = IF ask[u].linked THEN NoRow ELSE @]
    /\ pairings' = WithoutChallenges(u)
    /\ disconnects' = [disconnects EXCEPT ![u] = @ + 1]
    /\ ask' = [ask EXCEPT ![u] = AskIdle]
    /\ UNCHANGED <<bot, challenges, updates, received, hook, confirming, checking>>
(* The request is chosen as the deadlock's victim, or its process dies.     *)
AskFails(u) ==
    /\ ask[u].step # "none"
    /\ ask' = [ask EXCEPT ![u] = AskIdle]
    /\ UNCHANGED <<bot, pairings, linked, challenges, updates, received, hook, confirming,
                   checking, disconnects>>

ExpirePairing(k) ==
    /\ \E p \in pairings[k] :
          ~p.expired /\ pairings' = [pairings EXCEPT ![k] = {[p EXCEPT !.expired = TRUE]}]
    /\ PairingFree(k)
    /\ UNCHANGED <<bot, linked, challenges, updates, received, hook, ask, confirming, checking,
                   disconnects>>

-----------------------------------------------------------------------------
(* Telegram's side: a challenge is said to the bot, and the update is       *)
(* posted until it is answered, at times more than once.                    *)
SayChallenge(c, from) ==
    /\ Len(updates) < MaxUpdates
    /\ updates' = Append(updates, [challenge |-> c, from |-> from])
    /\ UNCHANGED <<bot, pairings, linked, challenges, received, hook, ask, confirming, checking,
                   disconnects>>

(* The unique receipt is inserted first, so a copy of the update waits; a   *)
(* received update is left at once.                                         *)
TakeUpdate(h, n) ==
    /\ hook[h].step = "none" /\ n \notin received
    /\ \A g \in Hooks : hook[g].update # n
    /\ hook' = [hook EXCEPT ![h] = [step |-> "read", update |-> n, pairing |-> {},
                                    bot |-> IF bot.on THEN bot.id ELSE 0]]
    /\ UNCHANGED <<bot, pairings, linked, challenges, updates, received, ask, confirming,
                   checking, disconnects>>

(* What makes a challenge good for this update, under the row's lock.  An   *)
(* owner is active here: Accounts has the others.                           *)
Eligible(k, from, id) ==
    \E p \in pairings[k] :
        /\ ~p.used /\ ~p.expired /\ p.bot = id
        /\ IF k[2] = "GROUP" THEN from \in Chats
           ELSE /\ from \in Accounts /\ linked[Owned(k)] = NoRow
                /\ ~Linked(from)
(* process_update reads the challenge FOR UPDATE; one that is no good       *)
(* leaves the receipt.                                                      *)
ReadChallenge(h) ==
    LET u == updates[hook[h].update]
        ks == Named(u.challenge)
    IN
    /\ hook[h].step = "read" /\ \A k \in ks : PairingFree(k)
    /\ \/ \E k \in ks :
             /\ Eligible(k, u.from, hook[h].bot)
             /\ hook' = [hook EXCEPT ![h].step = "eligible", ![h].pairing = {k}]
             /\ received' = received
       \/ /\ ~\E k \in ks : Eligible(k, u.from, hook[h].bot)
          /\ hook' = [hook EXCEPT ![h] = HookIdle]
          /\ received' = received \cup {hook[h].update}
    /\ UNCHANGED <<bot, pairings, linked, challenges, updates, ask, confirming, checking,
                   disconnects>>

(* The link is inserted, which waits for the user's row; one for an         *)
(* account or a user that has one by now fails on its unique key, and the   *)
(* transaction is rolled back.                                              *)
LinkAccount(h, u) ==
    LET from == updates[hook[h].update].from
        free == linked[u] = NoRow /\ ~Linked(from)
    IN
    /\ hook[h].step = "eligible" /\ hook[h].pairing = {<<u, "PRIVATE">>}
    /\ UserRowFree(u)
    /\ IF free
       THEN \E p \in pairings[u, "PRIVATE"] :
              /\ linked' = [linked EXCEPT ![u] =
                              {[account |-> from, bot |-> hook[h].bot, era |-> p.era]}]
              /\ pairings' = [pairings EXCEPT ![<<u, "PRIVATE">>] = {[p EXCEPT !.used = TRUE]}]
              /\ received' = received \cup {hook[h].update}
       ELSE UNCHANGED <<linked, pairings, received>>
    /\ hook' = [hook EXCEPT ![h] = HookIdle]
    /\ UNCHANGED <<bot, challenges, updates, ask, confirming, checking, disconnects>>

(* Telegram is asked about the group and the sender, with the lock held;    *)
(* the group becomes the candidate, or is not private or not the sender's.  *)
OfferGroup(h, u, suits) ==
    /\ hook[h].step = "eligible" /\ hook[h].pairing = {<<u, "GROUP">>}
    /\ pairings' = [pairings EXCEPT ![<<u, "GROUP">>] =
                      {[p EXCEPT !.used = p.used \/ suits,
                                 !.candidate = IF suits THEN updates[hook[h].update].from ELSE @]
                         : p \in pairings[u, "GROUP"]}]
    /\ received' = received \cup {hook[h].update}
    /\ hook' = [hook EXCEPT ![h] = HookIdle]
    /\ UNCHANGED <<bot, linked, challenges, updates, ask, confirming, checking, disconnects>>
(* Telegram does not answer, the process dies, or the request is chosen as  *)
(* the deadlock's victim: all is rolled back, the receipt too.              *)
HookFails(h) ==
    /\ hook[h].step # "none"
    /\ hook' = [hook EXCEPT ![h] = HookIdle]
    /\ UNCHANGED <<bot, pairings, linked, challenges, updates, received, ask, confirming,
                   checking, disconnects>>

-----------------------------------------------------------------------------
(* confirm_group locks the challenge, reads the settings and asks Telegram  *)
(* again ...                                                                *)
BeginConfirm(u) ==
    /\ confirming[u] = {} /\ PairingFree(<<u, "GROUP">>)
    /\ \E p \in pairings[u, "GROUP"] : p.candidate # NoOne /\ ~p.expired /\ p.bot = bot.id
    /\ bot.on /\ bot.token # 0
    /\ confirming' = [confirming EXCEPT ![u] = {bot.cipher}]
    /\ UNCHANGED <<bot, pairings, linked, challenges, updates, received, hook, ask, checking,
                   disconnects>>
(* Mutant: the settings are not read again.                                 *)
ConfirmedBlindly(p, cipher) == TRUE
StillTheBot(p, cipher) == bot.id = p.bot /\ bot.cipher = cipher /\ bot.on
(* ... and then, with the settings locked, whether they are still the ones  *)
(* it read; a candidate that is refused stays.                              *)
FinishConfirm(u, suits) ==
    /\ confirming[u] # {}
    /\ \E p \in pairings[u, "GROUP"], cipher \in confirming[u] :
          IF suits /\ StillTheBot(p, cipher)
          THEN /\ SaveBot([bot EXCEPT !.group = p.candidate, !.offered = p.bot])
               /\ pairings' = [pairings EXCEPT ![<<u, "GROUP">>] = NoRow]
          ELSE UNCHANGED <<bot, pairings>>
    /\ confirming' = [confirming EXCEPT ![u] = {}]
    /\ UNCHANGED <<linked, challenges, updates, received, hook, ask, checking, disconnects>>
(* group_disconnect.                                                        *)
DropGroup ==
    /\ bot.group # NoOne
    /\ SaveBot([bot EXCEPT !.group = NoOne, !.offered = 0])
    /\ UNCHANGED <<pairings, linked, challenges, updates, received, hook, ask, confirming,
                   checking, disconnects>>

-----------------------------------------------------------------------------
(* prepare_patch: another token, or none, makes the bot unknown and drops   *)
(* the group with it.                                                       *)
ChangeToken(t, on) ==
    /\ t # bot.token /\ t = 0 => ~on
    /\ SaveBot([bot EXCEPT !.token = t, !.id = 0, !.group = NoOne, !.offered = 0, !.on = on,
                           !.webhook = "not_registered"])
    /\ UNCHANGED <<pairings, linked, challenges, updates, received, hook, ask, confirming,
                   checking, disconnects>>
SwitchBot ==
    /\ bot.token # 0
    /\ bot' = [bot EXCEPT !.on = ~@]
    /\ UNCHANGED <<pairings, linked, challenges, updates, received, hook, ask, confirming,
                   checking, disconnects>>

Remember(what) == checking' = {[what |-> what, token |-> bot.token, cipher |-> bot.cipher]}
(* test_connection asks Telegram whose token it is, without a lock ...      *)
BeginTest ==
    /\ checking = {} /\ bot.on /\ bot.token # 0
    /\ Remember("test")
    /\ UNCHANGED <<bot, pairings, linked, challenges, updates, received, hook, ask, confirming,
                   disconnects>>
(* Mutant: the answer is saved whatever the token has become.               *)
AnyToken(token) == TRUE
SameToken(token) == bot.token = token /\ bot.on
(* ... and saves the answer if the token is still that one.                 *)
FinishTest(answers) ==
    /\ \E c \in checking : /\ c.what = "test"
                           /\ IF SameToken(c.token)
                              THEN SaveBot([bot EXCEPT !.id = IF answers THEN c.token ELSE 0])
                              ELSE bot' = bot
    /\ checking' = {}
    /\ UNCHANGED <<pairings, linked, challenges, updates, received, hook, ask, confirming,
                   disconnects>>
(* register_webhook saves "pending", which encrypts the token anew, calls   *)
(* Telegram, and compares the cipher it had read before that save.          *)
BeginRegister ==
    /\ checking = {} /\ bot.on /\ bot.token # 0
    /\ Remember("register") /\ SaveBot([bot EXCEPT !.webhook = "pending"])
    /\ UNCHANGED <<pairings, linked, challenges, updates, received, hook, ask, confirming,
                   disconnects>>
FinishRegister ==
    /\ \E c \in checking :
          /\ c.what = "register"
          /\ IF bot.cipher = c.cipher /\ bot.on
             THEN SaveBot([bot EXCEPT !.webhook = "registered"]) ELSE bot' = bot
    /\ checking' = {}
    /\ UNCHANGED <<pairings, linked, challenges, updates, received, hook, ask, confirming,
                   disconnects>>

-----------------------------------------------------------------------------
LinkingInit ==
    /\ bot = [token |-> 1, id |-> 1, on |-> TRUE, group |-> NoOne, offered |-> 0, cipher |-> 0,
              webhook |-> "not_registered"]
    /\ pairings = [k \in Owners \X Kinds |-> NoRow] /\ linked = [u \in Owners |-> NoRow]
    /\ challenges = 0 /\ updates = <<>> /\ received = {}
    /\ hook = [h \in Hooks |-> HookIdle] /\ ask = [u \in Owners |-> AskIdle]
    /\ confirming = [u \in Owners |-> {}] /\ checking = {}
    /\ disconnects = [u \in Owners |-> 0]

LinkingNext ==
    \/ \E u \in Owners :
          \/ \E k \in Kinds : BeginPair(u, k) \/ ExpirePairing(<<u, k>>)
          \/ FinishPair(u) \/ BeginDisconnect(u) \/ FinishDisconnect(u) \/ AskFails(u)
          \/ BeginConfirm(u)
          \/ \E suits \in BOOLEAN : FinishConfirm(u, suits)
    \/ \E c \in 1..challenges, from \in Accounts \cup Chats : SayChallenge(c, from)
    \/ \E h \in Hooks :
          \/ \E n \in DOMAIN updates : TakeUpdate(h, n)
          \/ ReadChallenge(h) \/ HookFails(h)
          \/ \E u \in Owners : \/ LinkAccount(h, u)
                              \/ \E suits \in BOOLEAN : OfferGroup(h, u, suits)
    \/ DropGroup \/ SwitchBot \/ BeginTest \/ BeginRegister \/ FinishRegister
    \/ \E t \in 0..MaxBots, on \in BOOLEAN : ChangeToken(t, on)
    \/ \E answers \in BOOLEAN : FinishTest(answers)

LinkingSpec == LinkingInit /\ [][LinkingNext]_linkVars

-----------------------------------------------------------------------------
(* A disconnect lasts: an account that is linked was linked under a         *)
(* challenge asked for after the user's last disconnect, however late       *)
(* Telegram delivers an update that names an earlier one                    *)
(* (private_disconnect, process_update).                                    *)
DisconnectsLast == \A u \in Owners : \A l \in linked[u] : l.era = disconnects[u]

(* Alerts go to a group that an administrator of it offered to the bot in   *)
(* force: neither a confirmation nor a test of the connection that was      *)
(* under way when the token changed leaves the group or the name of         *)
(* another bot behind (confirm_group, test_connection, prepare_patch).      *)
GroupIsTheBots ==
    /\ bot.id # 0 => bot.id = bot.token
    /\ bot.group # NoOne => bot.offered = bot.token
=============================================================================
