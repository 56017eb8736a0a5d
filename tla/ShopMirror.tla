------------------------------ MODULE ShopMirror ------------------------------
(***************************************************************************)
(* What one player buys is bought in the other's copy too: the mirrored    *)
(* click of src/session/mgmp_shopmirror.cpp.  A candy gives a level to a   *)
(* cat that each copy rolls for itself, so that the buyer announces the    *)
(* cat it got, the other copies turn their level-up screen to that cat,    *)
(* and nobody decides there (mgmp_choice.cpp) before that has happened or  *)
(* has been given up.                                                      *)
(*                                                                         *)
(* A ware stands for its slot key and, if it is a candy, for the level-up  *)
(* screen it opens.  The timers of the module may run out at any moment;   *)
(* spoilt tells when one did so too early.                                 *)
(***************************************************************************)
EXTENDS Naturals, Sequences, FiniteSets, SequencesExt, FiniteSetsExt, Lists

CONSTANTS
  Shopper,       \* the players
  Ware,          \* the items of the shop
  Candy,         \* those that give a level to a cat
  Banned,        \* kQuarantinedShopItems
  Kitten,        \* the cats that may get a level
  CarerOf,       \* who decides for each (Ownership)
  MaxQueued,     \* kMaxPending
  MaxWatches,    \* kMaxRecipientWatch
  MaxRedirects,  \* kMaxRedirect
  NoLevelUp, Unused, Untold, Nobody

ASSUME ShopParameters ==
  /\ Candy \subseteq Ware /\ Banned \subseteq Ware
  /\ CarerOf \in [Kitten -> Shopper]
  /\ MaxQueued \in Nat \ {0} /\ MaxWatches \in Nat \ {0} /\ MaxRedirects \in Nat \ {0}

LevelUpScreen == [ware : Candy, cat : Kitten, committed : BOOLEAN]

ASSUME ShopNothings ==
  /\ NoLevelUp \notin Ware /\ NoLevelUp \notin LevelUpScreen
  /\ Unused # Untold /\ {Unused, Untold, Nobody} \cap Kitten = {}

VARIABLES
  browsing, \* the shop's buttons are updated on this copy (external)
  shelf,    \* what its shop still has (external)
  opening,  \* candies bought there whose screen is still to open (external)
  screen,   \* its level-up screen: choice State::level_screen
  queued,   \* State::pending: purchases to mirror
  watch,    \* State::recipient_watch: the screen there was before each
  redirect, \* State::redirect
  told,     \* choice State::pending of level-ups
  mail,     \* messages to each player, oldest first
  given,    \* history: the cat each candy gave a level to
  spoilt    \* history: a timer ran out too early, or purchases crossed

shopVars == <<browsing, shelf, opening, screen, queued, watch, redirect, told, mail, given,
              spoilt>>

NoRedirects == [i \in 1 .. MaxRedirects |-> Unused]

ShopInit ==
  /\ browsing = [p \in Shopper |-> FALSE]
  /\ shelf = [p \in Shopper |-> Ware]
  /\ opening = [p \in Shopper |-> <<>>]
  /\ screen = [p \in Shopper |-> NoLevelUp]
  /\ queued = [p \in Shopper |-> <<>>]
  /\ watch = [p \in Shopper |-> <<>>]
  /\ redirect = [p \in Shopper |-> NoRedirects]
  /\ told = [p \in Shopper |-> FALSE]
  /\ mail = [p \in Shopper |-> <<>>]
  /\ given = [p \in Shopper |-> [w \in Candy |-> Nobody]]
  /\ spoilt = FALSE

ShopBuy(w) == [type |-> "SHOPBUY", ware |-> w]
LevelUpTarget(k) == [type |-> "LEVELUPTARGET", cat |-> k]
LevelUpChoice == [type |-> "CHOICE"]

(* To all the others, in the order they are sent.                          *)
Mailed(p, ms) == [q \in Shopper |-> IF q = p THEN mail[q] ELSE mail[q] \o ms]

(* The entries of s that are in S, in their order.                         *)
Among(s, S) == Picked([i \in {j \in DOMAIN s : s[j] \in S} |-> s[i]], Len(s))

(* is_quarantined_item.                                                    *)
Quarantined(w) == w \in Banned

(* choice_current_level_screen: 0 when there is none.                      *)
Showing(p) == IF screen[p] = NoLevelUp THEN NoLevelUp ELSE screen[p].ware

Undecided(p) == screen[p] # NoLevelUp /\ ~screen[p].committed

(* find_tracked_by_slot: the shop's buttons, seen within kPendingTimeoutMs.*)
Tracked(p) == browsing[p]

(* Redirects that know their cat.                                          *)
Targets(rs) == {i \in DOMAIN rs : rs[i] \in Kitten}

(* A candy has been bought, and its screen is not gone from all copies or  *)
(* what was announced of it has not come to rest.                          *)
CandyUnderWay ==
  \E p \in Shopper :
    \/ opening[p] # <<>> \/ screen[p] # NoLevelUp
    \/ Targets(redirect[p]) # {}
    \/ \E k \in Kitten : Contains(mail[p], LevelUpTarget(k))
    \/ \E w \in Candy : Contains(queued[p], w) \/ Contains(mail[p], ShopBuy(w))

(* An announcement that player p is to hear is still to come.              *)
Announcing(p) ==
  \/ \E k \in Kitten : Contains(mail[p], LevelUpTarget(k))
  \/ \E q \in Shopper \ {p} :
       watch[q] # <<>> /\ (opening[q] # <<>> \/ screen[q] # NoLevelUp)

-------------------------------------------------------------------------------
(* Buying.                                                                 *)

(* shopmirror_on_button_click: the game's purchase, the message, and a     *)
(* watch for the screen it may open.  Two players do not buy the same item *)
(* at once, nor anything while a level-up screen is in front.  Spoilt: a   *)
(* screen of the other's candy would be taken for one of this purchase;    *)
(* nobody buys any more then (bound).                                      *)
Buy(p, w) ==
  /\ browsing[p] /\ screen[p] = NoLevelUp
  /\ ~Quarantined(w) /\ ~spoilt
  /\ \A q \in Shopper : w \in shelf[q]
  /\ \A q \in Shopper : ~Contains(mail[q], ShopBuy(w)) /\ ~Contains(queued[q], w)
  /\ shelf' = [shelf EXCEPT ![p] = @ \ {w}]
  /\ opening' = IF w \in Candy THEN [opening EXCEPT ![p] = Append(@, w)] ELSE opening
  /\ mail' = Mailed(p, <<ShopBuy(w)>>)
  /\ watch' = IF Len(watch[p]) < MaxWatches
              THEN [watch EXCEPT ![p] = Append(@, Showing(p))] ELSE watch
  /\ spoilt' = \/ spoilt
               \/ CandyUnderWay
               \/ w \in Candy /\ \E q \in Shopper \ {p} : watch[q] # <<>>
  /\ UNCHANGED <<browsing, screen, queued, redirect, told, given>>

(* Mutant: a mirrored click leaves no trace.                               *)
ArmsNothing(rs, n) == rs

(* fire: a redirect is armed for each mirrored click while there is room.  *)
Armed(rs, n) ==
  LET free == {i \in DOMAIN rs : rs[i] = Unused}
      first == {i \in free : Cardinality({j \in free : j <= i}) <= n}
  IN [i \in DOMAIN rs |-> IF i \in first THEN Untold ELSE rs[i]]

(* fire, for each of ws: the matching click in this copy.                  *)
Fires(p, ws) ==
  /\ shelf' = [shelf EXCEPT ![p] = @ \ Range(ws)]
  /\ opening' = [opening EXCEPT ![p] = @ \o Among(ws, Candy)]
  /\ redirect' = [redirect EXCEPT ![p] = Armed(@, Len(ws))]

(* shopmirror_on_button_update, track, try_pending: a shop that comes up   *)
(* has the buttons that purchases were waiting for.                        *)
Browse(p) ==
  /\ ~Tracked(p)
  /\ browsing' = [browsing EXCEPT ![p] = TRUE]
  /\ Fires(p, queued[p])
  /\ queued' = [queued EXCEPT ![p] = <<>>]
  /\ UNCHANGED <<screen, watch, told, mail, given, spoilt>>

(* try_pending: after kPendingTimeoutMs the purchase is not mirrored.      *)
GivesUp(p) ==
  /\ ~Tracked(p) /\ queued[p] # <<>>
  /\ queued' = [queued EXCEPT ![p] = Tail(@)]
  /\ spoilt' = TRUE
  /\ UNCHANGED <<browsing, shelf, opening, screen, watch, redirect, told, mail, given>>

(* shopmirror_on_message.                                                  *)
OnShopBuy(p) ==
  /\ mail[p] # <<>> /\ Head(mail[p]).type = "SHOPBUY"
  /\ mail' = [mail EXCEPT ![p] = Tail(@)]
  /\ LET w == Head(mail[p]).ware IN
     IF Tracked(p) THEN Fires(p, <<w>>) /\ UNCHANGED <<queued, spoilt>>
     ELSE /\ UNCHANGED <<shelf, opening, redirect>>
          /\ IF Len(queued[p]) < MaxQueued
             THEN queued' = [queued EXCEPT ![p] = Append(@, w)] /\ UNCHANGED spoilt
             ELSE spoilt' = TRUE /\ UNCHANGED queued
  /\ UNCHANGED <<browsing, screen, watch, told, given>>

-------------------------------------------------------------------------------
(* Whose level-up it is.                                                   *)

(* peek_known_target.                                                      *)
KnownTarget(rs) == rs[Min(Targets(rs))]

(* The game rolls a cat and opens its screen.  h_levelup_init turns it to  *)
(* the buyer's cat at once if that is known by then.                       *)
OpenScreen(p) ==
  /\ opening[p] # <<>> /\ screen[p] = NoLevelUp
  /\ \E rolled \in Kitten :
       LET cat == IF Targets(redirect[p]) = {} THEN rolled ELSE KnownTarget(redirect[p])
       IN screen' = [screen EXCEPT ![p] =
                       [ware |-> Head(opening[p]), cat |-> cat, committed |-> FALSE]]
  /\ opening' = [opening EXCEPT ![p] = Tail(@)]
  /\ UNCHANGED <<browsing, shelf, queued, watch, redirect, told, mail, given, spoilt>>

(* Watches that see a screen they have not seen when they were armed.      *)
Seeing(p) == Among(watch[p], Range(watch[p]) \ {Showing(p)})

(* Mutant: the screen stays as it was rolled.                              *)
NotRedirected(rs, cat) == cat

(* tick_redirects, in the order of the array: every known target is put on *)
(* the screen, the last one stays.                                         *)
Redirected(rs, cat) == IF Targets(rs) = {} THEN cat ELSE rs[Max(Targets(rs))]

(* shopmirror_frame_tick with a level-up screen up: tick_recipient_watches *)
(* announces its cat, then tick_redirects turns it.                        *)
FrameTick(p) ==
  /\ screen[p] # NoLevelUp
  /\ Seeing(p) # <<>> \/ Targets(redirect[p]) # {}
  /\ mail' = Mailed(p, [i \in DOMAIN Seeing(p) |-> LevelUpTarget(screen[p].cat)])
  /\ watch' = [watch EXCEPT ![p] = Among(@, {Showing(p)})]
  /\ screen' = [screen EXCEPT ![p].cat = Redirected(redirect[p], @)]
  /\ redirect' = [redirect EXCEPT ![p] =
       [i \in DOMAIN @ |-> IF @[i] \in Kitten THEN Unused ELSE @[i]]]
  /\ UNCHANGED <<browsing, shelf, opening, queued, told, given, spoilt>>

(* No screen has come of a purchase within kWatchTimeoutMs.                *)
WatchExpires(p) ==
  /\ watch[p] # <<>> /\ Head(watch[p]) = Showing(p)
  /\ watch' = [watch EXCEPT ![p] = Tail(@)]
  /\ spoilt' = (spoilt \/ opening[p] # <<>>)
  /\ UNCHANGED <<browsing, shelf, opening, screen, queued, redirect, told, mail, given>>

(* Mutant: with a screen up, only the announcement ends a redirect.        *)
MayExpireBeforeScreen(p, i) == redirect[p][i] # Unused /\ screen[p] = NoLevelUp

(* The deadline counts while there is no screen or no target.              *)
MayExpire(p, i) ==
  /\ redirect[p][i] # Unused
  /\ screen[p] = NoLevelUp \/ redirect[p][i] = Untold

(* tick_redirects: kWatchTimeoutMs after the click, or the announcement.   *)
RedirectExpires(p, i) ==
  /\ MayExpire(p, i)
  /\ redirect' = [redirect EXCEPT ![p][i] = Unused]
  /\ spoilt' = \/ spoilt
               \/ redirect[p][i] = Untold /\ Announcing(p)
               \/ redirect[p][i] \in Kitten /\ (opening[p] # <<>> \/ queued[p] # <<>>)
  /\ UNCHANGED <<browsing, shelf, opening, screen, queued, watch, told, mail, given>>

(* shopmirror_on_levelup_target: to a click that waits for it, or to one   *)
(* that is still to come.                                                  *)
OnLevelUpTarget(p) ==
  /\ mail[p] # <<>> /\ Head(mail[p]).type = "LEVELUPTARGET"
  /\ mail' = [mail EXCEPT ![p] = Tail(@)]
  /\ LET rs == redirect[p]
         waiting == {i \in DOMAIN rs : rs[i] = Untold}
         free == {i \in DOMAIN rs : rs[i] = Unused}
         i == IF waiting # {} THEN Min(waiting) ELSE Min(free)
     IN redirect' = IF waiting \cup free = {} THEN redirect
                    ELSE [redirect EXCEPT ![p][i] = Head(mail[p]).cat]
  /\ UNCHANGED <<browsing, shelf, opening, screen, queued, watch, told, given, spoilt>>

-------------------------------------------------------------------------------
(* Deciding the level-up (mgmp_choice.cpp; Journey has the rest of it).    *)

(* Mutant: only a redirect that knows its cat holds the screen up.         *)
PendingOnceTold(p) == Targets(redirect[p]) # {}

(* shopmirror_levelup_redirect_pending.                                    *)
RedirectPending(p) == \E i \in 1 .. MaxRedirects : redirect[p][i] # Unused

(* level_screen_is_mine.                                                   *)
IsMyScreen(p) == ~RedirectPending(p) /\ CarerOf[screen[p].cat] = p

Commits(p) ==
  /\ screen' = [screen EXCEPT ![p].committed = TRUE]
  /\ given' = [given EXCEPT ![p][screen[p].ware] = screen[p].cat]

(* choice_on_level_select.                                                 *)
LevelSelect(p) ==
  /\ Undecided(p) /\ IsMyScreen(p)
  /\ Commits(p)
  /\ mail' = Mailed(p, <<LevelUpChoice>>)
  /\ UNCHANGED <<browsing, shelf, opening, queued, watch, redirect, told, spoilt>>

(* choice_on_message: the one slot of level-ups.                           *)
OnLevelUpChoice(p) ==
  /\ mail[p] # <<>> /\ Head(mail[p]).type = "CHOICE"
  /\ mail' = [mail EXCEPT ![p] = Tail(@)]
  /\ told' = [told EXCEPT ![p] = TRUE]
  /\ UNCHANGED <<browsing, shelf, opening, screen, queued, watch, redirect, given, spoilt>>

(* choice_on_level_update: on a screen of the other's, a choice is applied *)
(* unless a redirect is pending; once committed it is dropped.             *)
LevelUpdate(p) ==
  /\ told[p] /\ screen[p] # NoLevelUp /\ ~IsMyScreen(p)
  /\ IF screen[p].committed THEN UNCHANGED <<screen, given>>
     ELSE ~RedirectPending(p) /\ Commits(p)
  /\ told' = [told EXCEPT ![p] = FALSE]
  /\ UNCHANGED <<browsing, shelf, opening, queued, watch, redirect, mail, spoilt>>

(* The game closes a decided screen.  It counts as the current one for     *)
(* kScreenStaleMs, many frames, so that they have seen it.                 *)
ScreenGone(p) ==
  /\ screen[p] # NoLevelUp /\ screen[p].committed
  /\ Seeing(p) = <<>>
  /\ screen' = [screen EXCEPT ![p] = NoLevelUp]
  /\ UNCHANGED <<browsing, shelf, opening, queued, watch, redirect, told, mail, given, spoilt>>

OwnShopStep(p) ==
  \/ Browse(p) \/ OpenScreen(p) \/ FrameTick(p) \/ LevelSelect(p) \/ LevelUpdate(p)
  \/ ScreenGone(p)

ReadMail(p) == OnShopBuy(p) \/ OnLevelUpTarget(p) \/ OnLevelUpChoice(p)

TimerRunsOut(p) ==
  GivesUp(p) \/ WatchExpires(p) \/ \E i \in 1 .. MaxRedirects : RedirectExpires(p, i)

ShopNext ==
  \E p \in Shopper :
    OwnShopStep(p) \/ ReadMail(p) \/ TimerRunsOut(p) \/ \E w \in Ware : Buy(p, w)

ShopSpec == ShopInit /\ [][ShopNext]_shopVars

(* Frames run, messages are read, timers run out, players decide and come  *)
(* to the shop.  Nobody has to buy anything.                               *)
ShopFairness ==
  \A p \in Shopper :
    WF_shopVars(OwnShopStep(p)) /\ WF_shopVars(ReadMail(p)) /\ WF_shopVars(TimerRunsOut(p))

-------------------------------------------------------------------------------
(* Properties.                                                             *)

(* A candy that has given its level on two copies has given it to the same *)
(* cat on both, although each copy rolled one of its own and whoever cares *)
(* for either may have been quick to decide; and when no purchase is on    *)
(* its way the shops have sold the same.  Unless a timer ran out too       *)
(* early, or purchases crossed (LevelUpTargetMsg, tick_redirects,          *)
(* shopmirror_levelup_redirect_pending).                                   *)
SameHaul ==
  ~spoilt =>
    \A p, q \in Shopper :
      /\ \A w \in Candy : given[p][w] # Nobody /\ given[q][w] # Nobody => given[p][w] = given[q][w]
      /\ mail[q] = <<>> /\ queued[q] = <<>> => shelf[q] \subseteq shelf[p]

(* Nobody waits for ever on a level-up screen, whoever is to decide there: *)
(* a redirect that will not be told its cat, because the announcement came *)
(* before the mirrored click, is given up (Redirect, kWatchTimeoutMs).     *)
LevelUpsDecided ==
  \A p \in Shopper : Undecided(p) ~> ~Undecided(p) \/ spoilt
==============================================================================
