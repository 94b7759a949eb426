-------------------------- MODULE GameAndAccessProofs --------------------------
(***************************************************************************)
(* Theorems about GameEvents for every choice of chains, plugins, handlers *)
(* and nested calls, and about Access and DataFile for every number of     *)
(* slots, maps, points in time and changes.  They have no name in common,  *)
(* and no theorem here is about both.                                      *)
(*                                                                         *)
(* GameEvents.  Its tables are compared through what an event is by its    *)
(* name (TableOfEvents) and what a hook says of its events (TableOfHooks): *)
(* the rest of the proof has no use for what a chain is called.  A call in *)
(* progress was cancelled by whoever was allowed to, and goes on with what *)
(* its handlers left (SoundCall); the flags and the registries agree, and  *)
(* the engine's chains are always hooked (ChainsInPlace); and whoever      *)
(* listens is heard or late, loads or no loads (ListenersHeard).           *)
(*                                                                         *)
(* Access.  SaveLosesNothing is not inductive: a step of save needs to     *)
(* know what the steps before it have left in the three files, which       *)
(* SaveInOrder says.  CacheIsCurrent is not either: a record that is of no *)
(* use now, as it is of another map, may be of use again when the map      *)
(* comes back.  CacheInOrder says what every record of this generation is  *)
(* worth, on the map it is of and as long as none of its times has come.   *)
(***************************************************************************)
EXTENDS GameEvents, Access, FiniteSetTheorems, TLAPS

-----------------------------------------------------------------------------
(* GameEvents: the tables                                                  *)

\* The events by what their fire_ functions do.
ReadBack == {"player:hurt", "player:trace_attack", "player:heal", "weapon:deploy", "grenade:throw",
             "round:dead_weapons", "player:score_add", "team:score_add"}

ForNobody == {"round:start", "round:end", "round:freeze_end", "bomb:exploded", "round:balance_teams",
              "round:intermission", "round:remove_guns", "round:cleanup", "server:cvar_change",
              "server:precache_generic"}

ForAPlayer == {"player:hurt", "player:spawn", "player:hurt_post", "player:death", "weapon:fire",
               "weapon:reload", "weapon:deploy", "player:trace_attack", "player:heal",
               "player:score_add", "team:score_add", "player:round_respawn",
               "player:give_default_items"}

ForAnybody == {"bomb:planted", "bomb:defused", "grenade:throw", "grenade:thrown", "grenade:explode",
               "weapon:throw", "weapon:buy", "ammo:buy", "item:buy", "player:money_change",
               "ammo:pickup", "weapon:drop", "player:jump", "player:duck", "player:spectate",
               "bomb:defusing", "player:radio", "player:respawn_check", "item:give",
               "player:can_have_item", "player:can_switch_team", "player:strip", "weapon:pickup",
               "player:disappear", "player:shield_give", "player:shield_drop", "bomb:carrier",
               "player:observer_next", "player:observer_mode", "round:dead_weapons",
               "player:userinfo_change", "player:choose_model", "player:choose_team",
               "player:can_hear", "client:bot_created"}

\* What each event says of itself, by its name.
InTheTable(v) ==
    /\ v.verdict <=> v.event \in Cancellable
    /\ v.reads <=> v.event \in ReadBack
    /\ v.who = "none" <=> v.event \in ForNobody
    /\ v.who = "maybe" <=> v.event \in ForAnybody

LEMMA TableOfEvents == \A v \in AllEvents : InTheTable(v)
<1> USE DEF Amounts, Offers, Questions, Notices, EventOf,
            InTheTable, Cancellable, ReadBack, ForNobody, ForAnybody
<1>1. \A v \in HurtEvents : InTheTable(v)
    BY DEF HurtEvents
<1>2. \A v \in WeaponEvents : InTheTable(v)
    BY DEF WeaponEvents
<1>3. \A v \in RoundEvents : InTheTable(v)
    BY DEF RoundEvents
<1>4. \A v \in GrenadeEvents : InTheTable(v)
    BY DEF GrenadeEvents
<1>5. \A v \in ShopEvents : InTheTable(v)
    BY DEF ShopEvents
<1>6. \A v \in MoveEvents : InTheTable(v)
    BY DEF MoveEvents
<1>7. \A v \in HealEvents : InTheTable(v)
    BY DEF HealEvents
<1>8. \A v \in ItemEvents : InTheTable(v)
    BY DEF ItemEvents
<1>9. \A v \in TeamEvents : InTheTable(v)
    BY DEF TeamEvents
<1>10. \A v \in ScoreEvents : InTheTable(v)
    BY DEF ScoreEvents
<1>11. \A v \in MenuEvents : InTheTable(v)
    BY DEF MenuEvents
<1>12. \A v \in EngineEvents : InTheTable(v)
    BY DEF EngineEvents
<1> QED BY <1>1, <1>2, <1>3, <1>4, <1>5, <1>6, <1>7, <1>8, <1>9, <1>10, <1>11, <1>12 DEF AllEvents

\* An event about whoever the hook is about.
Suits(about, event) ==
    /\ event \in ForNobody \cup ForAPlayer \cup ForAnybody
    /\ about = "anybody" => event \in ForAnybody
    /\ about = "nobody" => event \in ForNobody
    /\ about = "player" => event \notin ForNobody

\* A hook and its events, as TablesAgree has it.
HookFits(h) ==
    /\ h.before # NoEvent =>
          /\ Suits(h.about, h.before)
          /\ h.stop # "never" <=> h.before \in Cancellable
          /\ h.writes <=> h.before \in ReadBack
    /\ h.after # NoEvent => Suits(h.about, h.after) /\ h.after \notin Cancellable

LEMMA TableOfHooks == \A h \in AllHooks : HookFits(h)
<1> USE DEF HookOf, NoEvent, HookFits, Suits,
            Cancellable, ReadBack, ForNobody, ForAnybody, ForAPlayer
<1>1. \A h \in DamageHooks : HookFits(h)
  <2>1. \A event \in {"player:spawn", "player:death"} : \A chain : HookFits(Tell(chain, event, "player"))
      BY DEF Tell
  <2>2. \A event \in {"player:trace_attack", "player:heal", "player:hurt"} :
            \A after \in {NoEvent, "player:hurt_post"} : \A chain :
                HookFits(AskAmount(chain, event, after))
      BY DEF AskAmount
  <2> HIDE DEF HookFits
  <2> QED BY <2>1, <2>2 DEF DamageHooks
<1>2. \A h \in WeaponHooks : HookFits(h)
    BY DEF WeaponHooks, Tell, TellDone, Ask, AskScore, Offer
<1>3. \A h \in RoundHooks : HookFits(h)
    BY DEF RoundHooks, Tell, TellDone, Ask, AskScore, Offer
<1>4. \A h \in ThrowHooks : HookFits(h)
    BY DEF ThrowHooks, Tell, TellDone, Ask, AskScore, Offer
<1>5. \A h \in BuyHooks : HookFits(h)
    BY DEF BuyHooks, Tell, TellDone, Ask, AskScore, Offer
<1>6. \A h \in ItemHooks : HookFits(h)
    BY DEF ItemHooks, Tell, TellDone, Ask, AskScore, Offer
<1>7. \A h \in MoveHooks : HookFits(h)
    BY DEF MoveHooks, Tell, TellDone, Ask, AskScore, Offer
<1>8. \A h \in BombHooks : HookFits(h)
    BY DEF BombHooks, Tell, TellDone, Ask, AskScore, Offer
<1>9. \A h \in ExplodeHooks : HookFits(h)
    BY DEF ExplodeHooks, Tell, TellDone, Ask, AskScore, Offer
<1>10. \A h \in TeamHooks : HookFits(h)
    BY DEF TeamHooks, Tell, TellDone, Ask, AskScore, Offer
<1>11. \A h \in ScoreHooks : HookFits(h)
    BY DEF ScoreHooks, Tell, TellDone, Ask, AskScore, Offer
<1>12. \A h \in EngineHooks : HookFits(h)
    BY DEF EngineHooks, Tell, TellDone, Ask, AskScore, Offer
<1> HIDE DEF HookFits
<1>13. \A h \in GameHooks : HookFits(h)
    BY <1>1, <1>2, <1>3, <1>4, <1>5, <1>6, <1>7, <1>8, <1>9, <1>10, <1>11, Zenon
       DEF GameHooks
<1> QED BY <1>12, <1>13, Zenon DEF AllHooks

EventNames == ForNobody \cup ForAPlayer \cup ForAnybody

LEMMA EventsAreNamed == \A e \in EventNames : \E v \in AllEvents : v.event = e
<1>1. \A e, who, reads, verdict : EventOf(e, who, reads, verdict).event = e
    BY DEF EventOf
<1>2. /\ \A e \in {"player:spawn", "player:hurt_post", "player:death"} :
             EventOf(e, "player", FALSE, FALSE) \in HurtEvents
      /\ \A e \in {"player:hurt"} : EventOf(e, "player", TRUE, TRUE) \in HurtEvents
    BY DEF HurtEvents, Amounts, Notices
<1>3. /\ \A e \in {"weapon:fire", "weapon:reload"} :
             EventOf(e, "player", FALSE, FALSE) \in WeaponEvents
      /\ \A e \in {"weapon:deploy"} : EventOf(e, "player", TRUE, FALSE) \in WeaponEvents
    BY DEF WeaponEvents, Notices, Offers
<1>4. /\ \A e \in {"round:start", "round:end", "round:freeze_end", "bomb:exploded"} :
             EventOf(e, "none", FALSE, FALSE) \in RoundEvents
      /\ \A e \in {"bomb:planted", "bomb:defused"} :
             EventOf(e, "maybe", FALSE, FALSE) \in RoundEvents
    BY DEF RoundEvents, Notices
<1>5. /\ \A e \in {"grenade:throw"} : EventOf(e, "maybe", TRUE, FALSE) \in GrenadeEvents
      /\ \A e \in {"grenade:thrown"} :
             EventOf(e, "maybe", FALSE, FALSE) \in GrenadeEvents
      /\ \A e \in {"grenade:explode", "weapon:throw"} :
             EventOf(e, "maybe", FALSE, TRUE) \in GrenadeEvents
    BY DEF GrenadeEvents, Notices, Offers, Questions
<1>6. /\ \A e \in {"weapon:buy", "ammo:buy", "item:buy", "player:money_change", "ammo:pickup",
                   "weapon:drop"} :
             EventOf(e, "maybe", FALSE, TRUE) \in ShopEvents
    BY DEF ShopEvents, Questions
<1>7. /\ \A e \in {"player:jump", "player:duck", "player:spectate", "bomb:defusing"} :
             EventOf(e, "maybe", FALSE, FALSE) \in MoveEvents
      /\ \A e \in {"player:radio", "player:respawn_check"} :
             EventOf(e, "maybe", FALSE, TRUE) \in MoveEvents
    BY DEF MoveEvents, Notices, Questions
<1>8. /\ \A e \in {"player:trace_attack", "player:heal"} :
             EventOf(e, "player", TRUE, TRUE) \in HealEvents
      /\ \A e \in {"round:balance_teams", "round:intermission"} :
             EventOf(e, "none", FALSE, FALSE) \in HealEvents
    BY DEF HealEvents, Amounts, Notices
<1>9. /\ \A e \in {"item:give", "player:can_have_item", "player:can_switch_team"} :
             EventOf(e, "maybe", FALSE, TRUE) \in ItemEvents
      /\ \A e \in {"player:strip", "weapon:pickup", "player:disappear"} :
             EventOf(e, "maybe", FALSE, FALSE) \in ItemEvents
    BY DEF ItemEvents, Notices, Questions
<1>10. /\ \A e \in {"player:shield_give", "player:shield_drop", "bomb:carrier",
                     "player:observer_next", "player:observer_mode"} :
              EventOf(e, "maybe", FALSE, FALSE) \in TeamEvents
       /\ \A e \in {"round:remove_guns"} :
              EventOf(e, "none", FALSE, FALSE) \in TeamEvents
       /\ \A e \in {"round:dead_weapons"} :
              EventOf(e, "maybe", TRUE, FALSE) \in TeamEvents
    BY DEF TeamEvents, Notices, Offers
<1>11. /\ \A e \in {"player:score_add", "team:score_add"} :
              EventOf(e, "player", TRUE, TRUE) \in ScoreEvents
    BY DEF ScoreEvents, Amounts
<1>12. /\ \A e \in {"round:cleanup"} : EventOf(e, "none", FALSE, FALSE) \in MenuEvents
       /\ \A e \in {"player:userinfo_change", "player:choose_model"} :
              EventOf(e, "maybe", FALSE, FALSE) \in MenuEvents
       /\ \A e \in {"player:can_hear", "player:choose_team"} :
              EventOf(e, "maybe", FALSE, TRUE) \in MenuEvents
    BY DEF MenuEvents, Notices, Questions
<1>13. /\ \A e \in {"server:cvar_change"} :
              EventOf(e, "none", FALSE, TRUE) \in EngineEvents
       /\ \A e \in {"server:precache_generic"} :
              EventOf(e, "none", FALSE, FALSE) \in EngineEvents
       /\ \A e \in {"client:bot_created"} :
              EventOf(e, "maybe", FALSE, FALSE) \in EngineEvents
       /\ \A e \in {"player:round_respawn", "player:give_default_items"} :
              EventOf(e, "player", FALSE, TRUE) \in EngineEvents
    BY DEF EngineEvents, Notices, Questions
<1>14. \A e, who, reads, verdict : EventOf(e, who, reads, verdict) \in AllEvents =>
           \E v \in AllEvents : v.event = e
    BY <1>1
<1>15. \A e \in ForNobody : \E verdict : EventOf(e, "none", FALSE, verdict) \in AllEvents
  <2>1. \A e \in {"round:start", "round:end", "round:freeze_end", "bomb:exploded"} :
            EventOf(e, "none", FALSE, FALSE) \in AllEvents
      BY <1>4 DEF AllEvents
  <2>2. \A e \in {"round:balance_teams", "round:intermission"} :
            EventOf(e, "none", FALSE, FALSE) \in AllEvents
      BY <1>8 DEF AllEvents
  <2>3. \A e \in {"round:remove_guns", "round:cleanup"} :
            EventOf(e, "none", FALSE, FALSE) \in AllEvents
      BY <1>10, <1>12 DEF AllEvents
  <2>4. /\ EventOf("server:cvar_change", "none", FALSE, TRUE) \in AllEvents
        /\ EventOf("server:precache_generic", "none", FALSE, FALSE) \in AllEvents
      BY <1>13 DEF AllEvents
  <2> QED BY <2>1, <2>2, <2>3, <2>4 DEF ForNobody
<1>16. \A e \in ForAPlayer : \E reads, verdict : EventOf(e, "player", reads, verdict) \in AllEvents
  <2>1. /\ \A e \in {"player:spawn", "player:hurt_post", "player:death", "weapon:fire", "weapon:reload"} :
              EventOf(e, "player", FALSE, FALSE) \in AllEvents
        /\ EventOf("player:hurt", "player", TRUE, TRUE) \in AllEvents
        /\ EventOf("weapon:deploy", "player", TRUE, FALSE) \in AllEvents
      BY <1>2, <1>3 DEF AllEvents
  <2>2. \A e \in {"player:trace_attack", "player:heal", "player:score_add", "team:score_add"} :
            EventOf(e, "player", TRUE, TRUE) \in AllEvents
      BY <1>8, <1>11 DEF AllEvents
  <2>3. \A e \in {"player:round_respawn", "player:give_default_items"} :
            EventOf(e, "player", FALSE, TRUE) \in AllEvents
      BY <1>13 DEF AllEvents
  <2> QED BY <2>1, <2>2, <2>3 DEF ForAPlayer
<1>17. \A e \in ForAnybody : \E reads, verdict : EventOf(e, "maybe", reads, verdict) \in AllEvents
  <2>1. \A e \in {"bomb:planted", "bomb:defused", "grenade:thrown"} :
            EventOf(e, "maybe", FALSE, FALSE) \in AllEvents
      BY <1>4, <1>5 DEF AllEvents
  <2>2. /\ EventOf("grenade:throw", "maybe", TRUE, FALSE) \in AllEvents
        /\ EventOf("round:dead_weapons", "maybe", TRUE, FALSE) \in AllEvents
      BY <1>5, <1>10 DEF AllEvents
  <2>3. \A e \in {"grenade:explode", "weapon:throw", "weapon:buy", "ammo:buy", "item:buy",
                   "player:money_change", "ammo:pickup", "weapon:drop"} :
            EventOf(e, "maybe", FALSE, TRUE) \in AllEvents
      BY <1>5, <1>6 DEF AllEvents
  <2>4. \A e \in {"player:jump", "player:duck", "player:spectate", "bomb:defusing", "player:strip",
                   "weapon:pickup", "player:disappear"} :
            EventOf(e, "maybe", FALSE, FALSE) \in AllEvents
      BY <1>7, <1>9 DEF AllEvents
  <2>5. \A e \in {"player:radio", "player:respawn_check", "item:give", "player:can_have_item",
                   "player:can_switch_team", "player:choose_team", "player:can_hear"} :
            EventOf(e, "maybe", FALSE, TRUE) \in AllEvents
      BY <1>7, <1>9, <1>12 DEF AllEvents
  <2>6. \A e \in {"player:shield_give", "player:shield_drop", "bomb:carrier", "player:observer_next",
                   "player:observer_mode", "player:userinfo_change", "player:choose_model",
                   "client:bot_created"} :
            EventOf(e, "maybe", FALSE, FALSE) \in AllEvents
      BY <1>10, <1>12, <1>13 DEF AllEvents
  <2> QED BY <2>1, <2>2, <2>3, <2>4, <2>5, <2>6 DEF ForAnybody
<1> QED BY <1>14, <1>15, <1>16, <1>17 DEF EventNames

Boolean(x) == x = TRUE \/ x = FALSE

LEMMA EventShape == \A v \in AllEvents : Boolean(v.verdict) /\ Boolean(v.reads)
<1> USE DEF Amounts, Offers, Questions, Notices, EventOf, Boolean
<1>1. \A v \in HurtEvents : Boolean(v.verdict) /\ Boolean(v.reads)
    BY DEF HurtEvents
<1>2. \A v \in WeaponEvents : Boolean(v.verdict) /\ Boolean(v.reads)
    BY DEF WeaponEvents
<1>3. \A v \in RoundEvents : Boolean(v.verdict) /\ Boolean(v.reads)
    BY DEF RoundEvents
<1>4. \A v \in GrenadeEvents : Boolean(v.verdict) /\ Boolean(v.reads)
    BY DEF GrenadeEvents
<1>5. \A v \in ShopEvents : Boolean(v.verdict) /\ Boolean(v.reads)
    BY DEF ShopEvents
<1>6. \A v \in MoveEvents : Boolean(v.verdict) /\ Boolean(v.reads)
    BY DEF MoveEvents
<1>7. \A v \in HealEvents : Boolean(v.verdict) /\ Boolean(v.reads)
    BY DEF HealEvents
<1>8. \A v \in ItemEvents : Boolean(v.verdict) /\ Boolean(v.reads)
    BY DEF ItemEvents
<1>9. \A v \in TeamEvents : Boolean(v.verdict) /\ Boolean(v.reads)
    BY DEF TeamEvents
<1>10. \A v \in ScoreEvents : Boolean(v.verdict) /\ Boolean(v.reads)
    BY DEF ScoreEvents
<1>11. \A v \in MenuEvents : Boolean(v.verdict) /\ Boolean(v.reads)
    BY DEF MenuEvents
<1>12. \A v \in EngineEvents : Boolean(v.verdict) /\ Boolean(v.reads)
    BY DEF EngineEvents
<1> QED BY <1>1, <1>2, <1>3, <1>4, <1>5, <1>6, <1>7, <1>8, <1>9, <1>10, <1>11, <1>12 DEF AllEvents

\* stop is one of three, and only what is given to the game can be nothing.
HookShaped(h) ==
    /\ h.stop = "never" \/ h.stop = "cancelled" \/ h.stop = "nothing left"
    /\ Boolean(h.writes)
    /\ h.stop = "nothing left" => h.writes
    /\ h.stop # "never" => h.before # NoEvent

LEMMA HookShape == \A h \in AllHooks : HookShaped(h)
<1>1. \A chain, event, about :
          HookShaped(Tell(chain, event, about)) /\ HookShaped(TellDone(chain, event, about))
    BY DEF Tell, TellDone, HookOf, HookShaped, Boolean
<1>2. \A chain, event, post, about : HookShaped(Offer(chain, event, post, about))
    BY DEF Offer, HookOf, HookShaped, Boolean
<1>3. \A chain, event, about : event # NoEvent => HookShaped(Ask(chain, event, about))
    BY DEF Ask, HookOf, HookShaped, Boolean
<1>4. \A chain, event, post : event # NoEvent => HookShaped(AskAmount(chain, event, post))
    BY DEF AskAmount, HookOf, HookShaped, Boolean
<1>5. \A chain, event : event # NoEvent => HookShaped(AskScore(chain, event))
    BY DEF AskScore, HookOf, HookShaped, Boolean
<1>6. HookShaped([Tell("dead_weapons", "round:dead_weapons", "anybody") EXCEPT !.writes = TRUE])
    BY DEF Tell, HookOf, HookShaped, Boolean
<1>7. \A h \in DamageHooks : HookShaped(h)
    BY <1>1, <1>2, <1>3, <1>4, <1>5, <1>6 DEF DamageHooks, NoEvent
<1>8. \A h \in WeaponHooks : HookShaped(h)
    BY <1>1, <1>2, <1>3, <1>4, <1>5, <1>6 DEF WeaponHooks, NoEvent
<1>9. \A h \in RoundHooks : HookShaped(h)
    BY <1>1, <1>2, <1>3, <1>4, <1>5, <1>6 DEF RoundHooks, NoEvent
<1>10. \A h \in ThrowHooks : HookShaped(h)
    BY <1>1, <1>2, <1>3, <1>4, <1>5, <1>6 DEF ThrowHooks, NoEvent
<1>11. \A h \in BuyHooks : HookShaped(h)
    BY <1>1, <1>2, <1>3, <1>4, <1>5, <1>6 DEF BuyHooks, NoEvent
<1>12. \A h \in ItemHooks : HookShaped(h)
    BY <1>1, <1>2, <1>3, <1>4, <1>5, <1>6 DEF ItemHooks, NoEvent
<1>13. \A h \in MoveHooks : HookShaped(h)
    BY <1>1, <1>2, <1>3, <1>4, <1>5, <1>6 DEF MoveHooks, NoEvent
<1>14. \A h \in BombHooks : HookShaped(h)
    BY <1>1, <1>2, <1>3, <1>4, <1>5, <1>6 DEF BombHooks, NoEvent
<1>15. \A h \in ExplodeHooks : HookShaped(h)
    BY <1>1, <1>2, <1>3, <1>4, <1>5, <1>6 DEF ExplodeHooks, NoEvent
<1>16. \A h \in TeamHooks : HookShaped(h)
    BY <1>1, <1>2, <1>3, <1>4, <1>5, <1>6 DEF TeamHooks, NoEvent
<1>17. \A h \in ScoreHooks : HookShaped(h)
    BY <1>1, <1>2, <1>3, <1>4, <1>5, <1>6 DEF ScoreHooks, NoEvent
<1>18. \A h \in EngineHooks : HookShaped(h)
    BY <1>1, <1>2, <1>3, <1>4, <1>5, <1>6 DEF EngineHooks, NoEvent
<1> QED BY <1>7, <1>8, <1>9, <1>10, <1>11, <1>12, <1>13, <1>14, <1>15, <1>16, <1>17, <1>18
        DEF AllHooks, GameHooks

LEMMA EventFacts ==
    ASSUME NEW e \in EventNames
    PROVE  Event[e] \in AllEvents /\ Event[e].event = e /\ InTheTable(Event[e])
<1>1. PICK v \in AllEvents : v.event = e
    BY EventsAreNamed
<1>2. Event[e] = CHOOSE w \in AllEvents : w.event = e
    BY <1>1 DEF Event
<1>3. Event[e] \in AllEvents /\ Event[e].event = e
    BY <1>1, <1>2
<1> QED BY <1>3, TableOfEvents

LEMMA HookFacts ==
    ASSUME NEW c \in {h.chain : h \in AllHooks}
    PROVE  Hook[c] \in AllHooks /\ Hook[c].chain = c /\ HookFits(Hook[c])
<1>1. PICK h \in AllHooks : h.chain = c
    OBVIOUS
<1>2. Hook[c] = CHOOSE g \in AllHooks : g.chain = c
    BY DEF Hook
<1>3. Hook[c] \in AllHooks /\ Hook[c].chain = c
    BY <1>1, <1>2
<1> QED BY <1>3, TableOfHooks

\* The four places of the code agree, for every chain there is.
LEMMA TheTablesAgree == TablesAgree
<1>1. SUFFICES ASSUME NEW h \in AllHooks
      PROVE  /\ h.before # NoEvent =>
                    /\ (h.stop # "never") = (h.before \in Cancellable)
                    /\ (h.stop # "never") = Event[h.before].verdict
                    /\ h.writes = Event[h.before].reads
             /\ h.after # NoEvent => h.after \notin Cancellable
             /\ \A e \in {h.before, h.after} \ {NoEvent} :
                    /\ h.about = "anybody" => Event[e].who = "maybe"
                    /\ h.about = "nobody" => Event[e].who = "none"
                    /\ h.about = "player" => Event[e].who # "none"
    BY DEF TablesAgree
<1>2. HookFits(h)
    BY TableOfHooks
<1>3. ASSUME h.before # NoEvent
      PROVE  /\ (h.stop # "never") = (h.before \in Cancellable)
             /\ (h.stop # "never") = Event[h.before].verdict
             /\ h.writes = Event[h.before].reads
  <2>1. h.before \in EventNames
      BY <1>2, <1>3 DEF HookFits, Suits, EventNames
  <2>2. /\ InTheTable(Event[h.before]) /\ Event[h.before].event = h.before
        /\ Event[h.before] \in AllEvents
      BY <2>1, EventFacts
  <2>3. Boolean(h.writes) /\ Boolean(Event[h.before].verdict) /\ Boolean(Event[h.before].reads)
      BY <2>2, HookShape, EventShape DEF HookShaped
  <2>4. /\ h.stop # "never" <=> h.before \in Cancellable
        /\ h.writes <=> h.before \in ReadBack
      BY <1>2, <1>3 DEF HookFits
  <2>5. /\ Event[h.before].verdict <=> h.before \in Cancellable
        /\ Event[h.before].reads <=> h.before \in ReadBack
      BY <2>2 DEF InTheTable
  <2>6. (h.stop # "never") = (h.before \in Cancellable)
      BY <2>4
  <2>7. (h.stop # "never") = Event[h.before].verdict
    <3>1. CASE h.before \in Cancellable
        BY <3>1, <2>3, <2>4, <2>5 DEF Boolean
    <3>2. CASE h.before \notin Cancellable
        BY <3>2, <2>3, <2>4, <2>5 DEF Boolean
    <3> QED BY <3>1, <3>2
  <2>8. h.writes = Event[h.before].reads
      BY <2>3, <2>4, <2>5 DEF Boolean
  <2> QED BY <2>6, <2>7, <2>8
<1>4. ASSUME NEW e \in {h.before, h.after} \ {NoEvent}
      PROVE  /\ h.about = "anybody" => Event[e].who = "maybe"
             /\ h.about = "nobody" => Event[e].who = "none"
             /\ h.about = "player" => Event[e].who # "none"
  <2>1. Suits(h.about, e)
      BY <1>2, <1>4 DEF HookFits
  <2>2. InTheTable(Event[e]) /\ Event[e].event = e
      BY <2>1, EventFacts DEF Suits, EventNames
  <2> QED BY <2>1, <2>2 DEF Suits, InTheTable
<1>5. h.after # NoEvent => h.after \notin Cancellable
    BY <1>2 DEF HookFits
<1> QED BY <1>3, <1>4, <1>5

-----------------------------------------------------------------------------
(* GameEvents: the invariant                                               *)

\* A frame of the stack: what it was cancelled by, and what was passed on.
SoundCall(f) ==
    /\ f.at # "load" => f.chain \in Chains
    /\ f.at = "load" => f.running \in Plugins
    /\ f.at = "before" =>
          /\ Hook[f.chain].before # NoEvent
          /\ f.accepted <=> f.cancelled /\ Hook[f.chain].before \in Cancellable
    /\ f.at = "after" => Hook[f.chain].after # NoEvent
    /\ f.at = "game" /\ Hook[f.chain].before # NoEvent =>
          /\ ~f.accepted
          /\ Hook[f.chain].stop = "nothing left" => f.given > 0
          /\ Event[Hook[f.chain].before].reads => f.given = f.value

\* Every call in progress.
SoundCalls(s) == s \in Seq(Frame) /\ \A i \in 1..Len(s) : SoundCall(s[i])

\* The flags and the registries, with the chains of the engine.
ChainsInPlace ==
    /\ ~fatal
    /\ \A c \in installed : IsGame(c)
    /\ \A c \in Chains : c \in hooked <=> c \in installed \/ ~IsGame(c)

\* ListenersAreHeard, in every phase and while loads go on.
ListenersHeard == \A c \in Chains : \A e \in EventsOf(c) : \A p \in listeners[e] :
    c \in hooked \/ <<p, e>> \in late

\* What NobodyCallsTheDead says, event by event.
NothingOfLua ==
    phase = "down" =>
        /\ installed = {}
        /\ \A e \in Events : listeners[e] = {}
        /\ \A i \in 1..Len(stack) : stack[i].running = Nobody

GameInv == GameTypeOK /\ SoundCalls(stack) /\ ChainsInPlace /\ ListenersHeard /\ NothingOfLua

LEMMA ChainFacts ==
    ASSUME Parameters, NEW c \in Chains
    PROVE  /\ EventsOf(c) \subseteq Events
           /\ Hook[c].before # NoEvent => Hook[c].before \in Events
           /\ Hook[c].after # NoEvent => Hook[c].after \in Events
           /\ Hook[c].before # NoEvent =>
                 /\ Hook[c].stop # "never" <=> Hook[c].before \in Cancellable
                 /\ Hook[c].writes <=> Event[Hook[c].before].reads
           /\ \/ Hook[c].stop = "never"
              \/ Hook[c].stop = "cancelled"
              \/ Hook[c].stop = "nothing left"
           /\ Hook[c].stop = "nothing left" => Hook[c].writes
           /\ Hook[c].stop # "never" => Hook[c].before # NoEvent
<1>1. Hook[c] \in AllHooks /\ HookFits(Hook[c])
    BY HookFacts DEF Parameters
<1>2. HookShaped(Hook[c])
    BY <1>1, HookShape
<1>3. EventsOf(c) \subseteq Events
    BY DEF Events
<1>4. /\ Hook[c].before # NoEvent => Hook[c].before \in Events
      /\ Hook[c].after # NoEvent => Hook[c].after \in Events
    BY <1>3 DEF EventsOf
<1>5. ASSUME Hook[c].before # NoEvent
      PROVE  Hook[c].writes <=> Event[Hook[c].before].reads
  <2>1. Hook[c].before \in EventNames
      BY <1>1, <1>5 DEF HookFits, Suits, EventNames
  <2>2. /\ InTheTable(Event[Hook[c].before])
        /\ Event[Hook[c].before].event = Hook[c].before
      BY <2>1, EventFacts
  <2> QED BY <1>1, <1>5, <2>2 DEF HookFits, InTheTable
<1>6. Hook[c].before # NoEvent =>
          (Hook[c].stop # "never" <=> Hook[c].before \in Cancellable)
    BY <1>1 DEF HookFits
<1> QED BY <1>2, <1>3, <1>4, <1>5, <1>6 DEF HookShaped

LEMMA NothingReads == NoEvent \notin Cancellable
BY DEF NoEvent, Cancellable

\* The three ways in which a step changes the stack.
LEMMA PushSound ==
    ASSUME NEW s, SoundCalls(s), NEW f \in Frame, SoundCall(f)
    PROVE  SoundCalls(Append(s, f))
BY DEF SoundCalls

LEMMA PopSound ==
    ASSUME SoundCalls(stack), stack # <<>>
    PROVE  /\ SoundCalls(Below)
           /\ Len(stack) \in Nat \ {0} /\ Len(Below) = Len(stack) - 1
           /\ Top \in Frame /\ SoundCall(Top)
<1>1. Len(stack) \in Nat \ {0}
    BY DEF SoundCalls
<1>2. PICK n \in Nat : n = Len(stack) - 1
    BY <1>1
<1>3. stack \in Seq(Frame) /\ Below = SubSeq(stack, 1, n)
    BY <1>2 DEF SoundCalls, Below
<1>4. Below \in Seq(Frame) /\ Len(Below) = n
    BY <1>1, <1>2, <1>3
<1>5. \A i \in 1..n : Below[i] = stack[i]
    BY <1>1, <1>2, <1>3
<1> QED BY <1>1, <1>2, <1>4, <1>5 DEF SoundCalls, Top

LEMMA ReplaceSound ==
    ASSUME SoundCalls(stack), stack # <<>>, NEW f \in Frame, SoundCall(f)
    PROVE  /\ SoundCalls(Append(Below, f))
           /\ Len(Append(Below, f)) = Len(stack)
BY PopSound, PushSound DEF SoundCalls

LEMMA NewFrame ==
    ASSUME Parameters, NEW c \in Chains
    PROVE  LET at == IF Hook[c].before # NoEvent THEN "before" ELSE "game"
           IN  Enters(c, {}, at) \in Frame /\ SoundCall(Enters(c, {}, at))
<1> DEFINE at == IF Hook[c].before # NoEvent THEN "before" ELSE "game"
           f == Enters(c, {}, at)
<1>1. f \in Frame
    BY DEF Enters, Frame, Parameters, Values, Original
<1>2. SoundCall(f)
    BY DEF Enters, SoundCall, NoEvent
<1> QED BY <1>1, <1>2

LEMMA LoadFrame ==
    ASSUME Parameters, NEW p \in Plugins
    PROVE  LoadOf(p) \in Frame /\ SoundCall(LoadOf(p))
<1>1. LoadOf(p) \in Frame
    BY DEF LoadOf, Frame, Parameters, Values
<1> QED BY <1>1 DEF LoadOf, SoundCall

\* Who was told says nothing of the rest of a frame.
LEMMA ForgetsSound ==
    ASSUME SoundCalls(stack), NEW p, NEW events
    PROVE  /\ SoundCalls(Forgets(p, events)) /\ Len(Forgets(p, events)) = Len(stack)
           /\ \A i \in 1..Len(stack) : Forgets(p, events)[i].running = stack[i].running
<1> DEFINE s == Forgets(p, events)
<1>1. DOMAIN s = 1..Len(stack) /\ Len(stack) \in Nat
    BY DEF Forgets, SoundCalls
<1>2. ASSUME NEW i \in 1..Len(stack)
      PROVE  s[i] \in Frame /\ SoundCall(s[i]) /\ s[i].running = stack[i].running
  <2>1. PICK f \in Frame : f = stack[i]
      BY DEF SoundCalls
  <2>2. PICK told : told = f.told \ {p}
      OBVIOUS
  <2>3. PICK g : g = [f EXCEPT !.told = told]
      OBVIOUS
  <2>4. g \in Frame /\ g.chain = f.chain /\ g.at = f.at /\ g.running = f.running
        /\ g.accepted = f.accepted /\ g.cancelled = f.cancelled /\ g.value = f.value /\ g.given = f.given
      BY <2>2, <2>3 DEF Frame
  <2>5. s[i] = f \/ s[i] = g
      BY <1>1, <2>1, <2>2, <2>3 DEF Forgets
  <2>6. SoundCall(f)
      BY <2>1 DEF SoundCalls
  <2>7. SoundCall(g)
      BY <2>4, <2>6 DEF SoundCall
  <2> QED BY <2>1, <2>4, <2>5, <2>6, <2>7
<1>3. s = [i \in 1..Len(stack) |-> s[i]]
    BY <1>1 DEF Forgets
<1> HIDE DEF s
<1>4. s \in Seq(Frame) /\ Len(s) = Len(stack)
    BY <1>1, <1>2, <1>3
<1> QED BY <1>2, <1>4 DEF SoundCalls, s

\* What a step of the game leaves alone.
OnlyCalls == UNCHANGED <<phase, states, loaded, listeners, installed, hooked, fatal, late>>

LEMMA QuietStep ==
    ASSUME Parameters, GameInv, OnlyCalls, SoundCalls(stack'), Len(stack') <= MaxDepth,
           phase = "down" => \A i \in 1..Len(stack') : stack'[i].running = Nobody
    PROVE  GameInv'
<1>1. GameTypeOK'
    BY DEF GameInv, GameTypeOK, OnlyCalls, SoundCalls
<1>2. ChainsInPlace'
    BY DEF GameInv, ChainsInPlace, OnlyCalls
<1>3. ListenersHeard'
    BY DEF GameInv, ListenersHeard, OnlyCalls
<1>4. NothingOfLua'
    BY DEF GameInv, NothingOfLua, OnlyCalls
<1> QED BY <1>1, <1>2, <1>3, <1>4 DEF GameInv

LEMMA ReplaceStep ==
    ASSUME Parameters, GameInv, OnlyCalls, stack # <<>>, NEW g \in Frame, SoundCall(g),
           phase = "down" => g.running = Nobody, stack' = Append(Below, g)
    PROVE  GameInv'
<1>1. SoundCalls(stack') /\ Len(stack') = Len(stack)
    BY ReplaceSound DEF GameInv
<1>2. Len(stack') <= MaxDepth
    BY <1>1 DEF GameInv, GameTypeOK
<1>3. SoundCalls(Below) /\ Len(stack) \in Nat \ {0} /\ Len(Below) = Len(stack) - 1
    BY PopSound DEF GameInv
<1>4. ASSUME phase = "down", NEW i \in 1..Len(stack')
      PROVE  stack'[i].running = Nobody
  <2>1. \A j \in 1..Len(stack) : stack[j].running = Nobody
      BY <1>4 DEF GameInv, NothingOfLua
  <2>2. \A j \in 1..Len(Below) : Below[j] = stack[j]
      BY <1>3 DEF Below, GameInv, SoundCalls
  <2>3. CASE i \in 1..Len(Below)
      BY <2>1, <2>2, <2>3, <1>3 DEF SoundCalls
  <2>4. CASE i = Len(Below) + 1
      BY <2>4, <1>3, <1>4 DEF SoundCalls
  <2> QED BY <1>1, <1>3, <2>3, <2>4
<1> QED BY <1>1, <1>2, <1>4, QuietStep

LEMMA PopStep ==
    ASSUME Parameters, GameInv, OnlyCalls, stack # <<>>, stack' = Below
    PROVE  GameInv'
<1>1. SoundCalls(stack') /\ Len(stack') = Len(stack) - 1 /\ Len(stack) \in Nat
    BY PopSound DEF GameInv
<1>2. Len(stack') <= MaxDepth
    BY <1>1 DEF GameInv, GameTypeOK, Parameters
<1>3. \A i \in 1..Len(stack') : stack'[i] = stack[i] /\ i \in 1..Len(stack)
    BY <1>1 DEF Below, GameInv, SoundCalls
<1>4. phase = "down" => \A i \in 1..Len(stack') : stack'[i].running = Nobody
    BY <1>3 DEF GameInv, NothingOfLua
<1> QED BY <1>1, <1>2, <1>4, QuietStep

\* The frame on top while its event is being dispatched.
LEMMA TopFacts ==
    ASSUME Parameters, GameInv, stack # <<>>
    PROVE  /\ Top \in Frame /\ SoundCall(Top)
           /\ phase = "down" => Top.running = Nobody
           /\ Top.at \in {"before", "after"} =>
                 Top.chain \in Chains /\ Current(Top) \in Events
<1>1. Top \in Frame /\ SoundCall(Top)
    BY PopSound DEF GameInv
<1>2. phase = "down" => Top.running = Nobody
    BY PopSound DEF GameInv, NothingOfLua, Top
<1>3. ASSUME Top.at \in {"before", "after"}
      PROVE  Top.chain \in Chains /\ Current(Top) \in Events
  <2>1. Top.chain \in Chains
      BY <1>1, <1>3 DEF SoundCall
  <2> QED BY <2>1, <1>1, <1>3, ChainFacts DEF SoundCall, Current
<1> QED BY <1>1, <1>2, <1>3

LEMMA GameCallsKeeps ==
    ASSUME Parameters, GameInv, NEW c \in Chains, GameCalls(c)
    PROVE  GameInv'
<1> DEFINE f == Enters(c, {}, IF Hook[c].before # NoEvent THEN "before" ELSE "game")
<1>1. f \in Frame /\ SoundCall(f)
    BY NewFrame
<1>2. f.running = Nobody
    BY DEF Enters
<1>3. stack' = Append(stack, f) /\ OnlyCalls /\ Len(stack) < MaxDepth
    BY DEF GameCalls, OnlyCalls
<1> HIDE DEF f
<1>4. SoundCalls(stack') /\ Len(stack') = Len(stack) + 1
    BY <1>1, <1>3, PushSound DEF GameInv, SoundCalls
<1>5. Len(stack') <= MaxDepth
    BY <1>3, <1>4 DEF Parameters, GameInv, SoundCalls
<1>6. phase = "down" => \A i \in 1..Len(stack') : stack'[i].running = Nobody
  <2>1. \A i \in 1..Len(stack') : stack'[i] = IF i = Len(stack) + 1 THEN f ELSE stack[i]
      BY <1>3, <1>4 DEF GameInv, SoundCalls
  <2> QED BY <2>1, <1>2, <1>4 DEF GameInv, NothingOfLua, SoundCalls
<1> QED BY <1>3, <1>4, <1>5, <1>6, QuietStep

LEMMA HandleKeeps ==
    ASSUME Parameters, GameInv, NEW p \in Plugins, Handle(p)
    PROVE  GameInv'
<1>1. Top \in Frame /\ SoundCall(Top) /\ Current(Top) \in Events /\ stack # <<>>
    BY TopFacts DEF Handle, Dispatching
<1>2. PICK f \in Frame : f = Top
    BY <1>1
<1>3. PICK g : g = [f EXCEPT !.running = p]
    OBVIOUS
<1>4. g \in Frame /\ g.running = p /\ g.chain = f.chain /\ g.at = f.at /\ g.cancelled = f.cancelled
      /\ g.accepted = f.accepted /\ g.value = f.value /\ g.given = f.given
    BY <1>3 DEF Frame
<1>5. SoundCall(g)
    BY <1>1, <1>2, <1>4 DEF SoundCall
<1>6. phase # "down"
    BY <1>1 DEF GameInv, NothingOfLua, Handle, NotTold
<1>7. OnlyCalls /\ stack' = Append(Below, g)
    BY <1>2, <1>3 DEF Handle, OnlyCalls
<1> QED BY <1>1, <1>4, <1>5, <1>6, <1>7, ReplaceStep

LEMMA CancelKeeps ==
    ASSUME Parameters, GameInv, Cancel
    PROVE  GameInv'
<1>1. /\ Top \in Frame /\ SoundCall(Top) /\ stack # <<>> /\ Top.at \in {"before", "after"}
      /\ phase # "down"
    BY TopFacts DEF Cancel, Dispatching
<1>2. PICK f \in Frame : f = Top
    BY <1>1
<1>3. PICK yes \in BOOLEAN : yes = (f.accepted \/ Current(f) \in Cancellable)
    OBVIOUS
<1>4. PICK g : g = [f EXCEPT !.cancelled = TRUE, !.accepted = yes]
    OBVIOUS
<1>5. g \in Frame /\ g.chain = f.chain /\ g.at = f.at /\ g.cancelled = TRUE /\ g.accepted = yes
    BY <1>4 DEF Frame
<1>6. SoundCall(g)
  <2>1. CASE f.at = "before"
    <3>1. Current(f) = Hook[f.chain].before
        BY <2>1 DEF Current
    <3>2. g.accepted <=> Hook[g.chain].before \in Cancellable
        BY <1>1, <1>2, <1>3, <1>5, <2>1, <3>1 DEF SoundCall
    <3> QED BY <1>1, <1>2, <1>5, <2>1, <3>2 DEF SoundCall
  <2>2. CASE f.at = "after"
      BY <1>1, <1>2, <1>5, <2>2 DEF SoundCall
  <2> QED BY <1>1, <1>2, <2>1, <2>2
<1>7. OnlyCalls /\ stack' = Append(Below, g)
    BY <1>2, <1>3, <1>4 DEF Cancel, OnlyCalls
<1> QED BY <1>1, <1>5, <1>6, <1>7, ReplaceStep

LEMMA WriteKeeps ==
    ASSUME Parameters, GameInv, NEW v \in Values, WriteAmount(v)
    PROVE  GameInv'
<1>1. /\ Top \in Frame /\ SoundCall(Top) /\ stack # <<>>
      /\ Top.at \in {"before", "after"} /\ phase # "down"
    BY TopFacts DEF WriteAmount, Dispatching
<1>2. PICK f \in Frame : f = Top
    BY <1>1
<1>3. PICK g : g = [f EXCEPT !.value = v]
    OBVIOUS
<1>4. g \in Frame /\ g.chain = f.chain /\ g.at = f.at /\ g.cancelled = f.cancelled
      /\ g.accepted = f.accepted
    BY <1>3 DEF Frame
<1>5. SoundCall(g)
    BY <1>1, <1>2, <1>4 DEF SoundCall
<1>6. OnlyCalls /\ stack' = Append(Below, g)
    BY <1>2, <1>3 DEF WriteAmount, OnlyCalls
<1> QED BY <1>1, <1>4, <1>5, <1>6, ReplaceStep

LEMMA HandlerReturnsKeeps ==
    ASSUME Parameters, GameInv, HandlerReturns
    PROVE  GameInv'
<1>1. /\ Top \in Frame /\ SoundCall(Top)
      /\ Current(Top) \in Events /\ stack # <<>>
      /\ Top.at \in {"before", "after"}
    BY TopFacts DEF HandlerReturns, Dispatching
<1>2. PICK f \in Frame : f = Top
    BY <1>1
<1>3. PICK told \in SUBSET Plugins : told = f.told \cup ({f.running} \cap listeners[Current(f)])
  <2>1. listeners[Current(f)] \subseteq Plugins
      BY <1>1, <1>2 DEF GameInv, GameTypeOK
  <2>2. f.told \subseteq Plugins
      BY DEF Frame
  <2> QED BY <2>1, <2>2
<1>4. PICK g : g = [f EXCEPT !.running = Nobody, !.told = told]
    OBVIOUS
<1>5. g \in Frame /\ g.running = Nobody /\ g.chain = f.chain /\ g.at = f.at /\ g.cancelled = f.cancelled
      /\ g.accepted = f.accepted /\ g.value = f.value /\ g.given = f.given
    BY <1>4 DEF Frame
<1>6. SoundCall(g)
    BY <1>1, <1>2, <1>5 DEF SoundCall
<1>7. OnlyCalls /\ stack' = Append(Below, g)
    BY <1>2, <1>3, <1>4 DEF HandlerReturns, OnlyCalls
<1> QED BY <1>1, <1>5, <1>6, <1>7, ReplaceStep

LEMMA CallNextKeeps ==
    ASSUME Parameters, GameInv, CallNext
    PROVE  GameInv'
<1>1. /\ Top \in Frame /\ SoundCall(Top) /\ Top.chain \in Chains /\ stack # <<>>
      /\ Top.at = "before" /\ Top.running = Nobody /\ ~Stops(Top)
    BY TopFacts DEF CallNext, WalkIsOver, Dispatching
<1>2. PICK f \in Frame : f = Top
    BY <1>1
<1>3. Gives(f) \in Values
    BY DEF Gives, Frame, Original, Values, Parameters
<1>4. PICK given \in Values : given = Gives(f)
    BY <1>3
<1>5. PICK g : g = [f EXCEPT !.at = "game", !.given = given]
    OBVIOUS
<1>6. g \in Frame /\ g.running = f.running /\ g.chain = f.chain /\ g.at = "game"
      /\ g.accepted = f.accepted /\ g.value = f.value /\ g.given = given
    BY <1>5 DEF Frame
<1>7. ~f.accepted /\ (Hook[f.chain].stop = "nothing left" => f.value > 0)
  <2>1. f.accepted <=> f.cancelled /\ Hook[f.chain].before \in Cancellable
      BY <1>1, <1>2 DEF SoundCall
  <2>2. Hook[f.chain].before # NoEvent
      BY <1>1, <1>2 DEF SoundCall
  <2>3. CASE Hook[f.chain].stop = "never"
      BY <1>1, <1>2, <2>1, <2>2, <2>3, ChainFacts
  <2>4. CASE Hook[f.chain].stop = "cancelled"
      BY <1>1, <1>2, <2>1, <2>4 DEF Stops
  <2>5. CASE Hook[f.chain].stop = "nothing left"
    <3>1. ~f.cancelled /\ f.value # 0
        BY <1>1, <1>2, <2>5 DEF Stops
    <3>2. f.value \in Nat
        BY DEF Frame, Values
    <3>3. f.value > 0
        BY <3>1, <3>2
    <3>4. ~f.accepted
        BY <2>1, <3>1
    <3> QED BY <3>3, <3>4
  <2> QED BY <1>1, <1>2, <2>3, <2>4, <2>5, ChainFacts
<1>8. SoundCall(g)
  <2>1. Hook[f.chain].stop = "nothing left" => Hook[f.chain].writes
      BY <1>1, <1>2, ChainFacts
  <2>2. Hook[f.chain].before # NoEvent =>
            (Hook[f.chain].writes <=> Event[Hook[f.chain].before].reads)
      BY <1>1, <1>2, ChainFacts
  <2>3. Hook[f.chain].writes => g.given = f.value
      BY <1>4, <1>6 DEF Gives
  <2> QED BY <1>1, <1>2, <1>6, <1>7, <2>1, <2>2, <2>3 DEF SoundCall
<1>9. OnlyCalls /\ stack' = Append(Below, g)
    BY <1>2, <1>4, <1>5 DEF CallNext, OnlyCalls
<1> QED BY <1>1, <1>2, <1>6, <1>8, <1>9, ReplaceStep

LEMMA GameReturnsKeeps ==
    ASSUME Parameters, GameInv, GameReturns
    PROVE  GameInv'
<1>1. /\ Top \in Frame /\ SoundCall(Top) /\ stack # <<>> /\ Top.at = "game" /\ OnlyCalls
      /\ phase = "down" => Top.running = Nobody
    BY TopFacts DEF GameReturns, OnlyCalls
<1>2. CASE stack' = Below
    BY <1>1, <1>2, PopStep
<1>3. ASSUME Hook[Top.chain].after # NoEvent, NEW v \in Leaves(Top),
             stack' = Append(Below, [Top EXCEPT !.at = "after", !.told = {}, !.cancelled = FALSE,
                                                !.accepted = FALSE, !.value = v,
                                                !.given = Original])
      PROVE  GameInv'
  <2>1. PICK f \in Frame : f = Top
      BY <1>1
  <2>2. PICK given \in Values : given = v
      BY <1>3, <2>1 DEF Leaves, Frame
  <2>3. PICK first \in Values : first = Original
      BY DEF Original, Values, Parameters
  <2>4. PICK g : g = [f EXCEPT !.at = "after", !.told = {}, !.cancelled = FALSE, !.accepted = FALSE,
                               !.value = given, !.given = first]
      OBVIOUS
  <2>5. g \in Frame /\ g.running = f.running /\ g.chain = f.chain /\ g.at = "after"
      BY <2>4 DEF Frame
  <2>6. SoundCall(g)
      BY <1>1, <1>3, <2>1, <2>5 DEF SoundCall
  <2>7. stack' = Append(Below, g)
      BY <1>3, <2>1, <2>2, <2>3, <2>4
  <2> QED BY <1>1, <2>1, <2>5, <2>6, <2>7, ReplaceStep
<1> QED BY <1>2, <1>3 DEF GameReturns

LEMMA LeaveKeeps ==
    ASSUME Parameters, GameInv, Drop \/ HookReturns
    PROVE  GameInv'
BY PopStep DEF Drop, HookReturns, WalkIsOver, Dispatching, OnlyCalls

\* After a pass over the chains every chain that somebody listens to is hooked.
LEMMA SyncKeeps ==
    ASSUME Parameters, GameInv, NEW heard \in [Events -> SUBSET Plugins], Sync(heard)
    PROVE  /\ listeners' \in [Events -> SUBSET Plugins] /\ late' = {}
           /\ installed' \subseteq Chains /\ hooked' \subseteq Chains /\ fatal' \in BOOLEAN
           /\ ChainsInPlace' /\ ListenersHeard'
<1> DEFINE want == {c \in Chains : IsGame(c) /\ Wanted(heard, c)}
           ours == {c \in Chains : IsGame(c)}
<1>1. /\ fatal' = (fatal \/ (want \ installed) \cap hooked # {})
      /\ hooked' = (hooked \cup (want \ installed)) \ ((ours \cap installed) \ want)
      /\ installed' = want /\ listeners' = heard /\ late' = {}
    BY DEF Sync
<1>2. want \subseteq Chains /\ \A c \in want : IsGame(c)
    OBVIOUS
<1>3. ~fatal /\ installed \subseteq Chains /\ hooked \subseteq Chains
      /\ (\A c \in installed : IsGame(c))
      /\ \A c \in Chains : c \in hooked <=> c \in installed \/ ~IsGame(c)
    BY DEF GameInv, ChainsInPlace, GameTypeOK
<1>4. ours = {c \in Chains : IsGame(c)}
    OBVIOUS
<1>5. ASSUME NEW c \in Chains, NEW e \in EventsOf(c), NEW p \in heard[e]
      PROVE  c \in want \/ ~IsGame(c)
    BY <1>5 DEF Wanted
<1> HIDE DEF want, ours
<1>6. \A c \in Chains : c \in hooked' <=> c \in want \/ ~IsGame(c)
    BY <1>1, <1>2, <1>3, <1>4
<1>7. (want \ installed) \cap hooked = {}
    BY <1>2, <1>3
<1>8. hooked' \subseteq Chains /\ installed' \subseteq Chains /\ ~fatal'
    BY <1>1, <1>2, <1>3, <1>7
<1>9. ChainsInPlace'
    BY <1>1, <1>2, <1>6, <1>8 DEF ChainsInPlace
<1>10. ListenersHeard'
    BY <1>1, <1>5, <1>6 DEF ListenersHeard
<1> QED BY <1>1, <1>8, <1>9, <1>10

LEMMA WithoutType ==
    ASSUME GameInv, NEW p
    PROVE  /\ Without(p) \in [Events -> SUBSET Plugins]
           /\ \A e \in Events : Without(p)[e] = listeners[e] \ {p}
BY DEF GameInv, GameTypeOK, Without

LEMMA RunsAlive ==
    ASSUME Parameters, GameInv, NEW p \in Plugins, Runs(p)
    PROVE  phase # "down"
<1>1. CASE stack = <<>>
    BY <1>1 DEF Runs
<1>2. CASE stack # <<>>
    BY <1>2, TopFacts DEF Runs, Parameters
<1> QED BY <1>1, <1>2

LEMMA HookAddKeeps ==
    ASSUME Parameters, GameInv, NEW p \in Plugins, NEW e \in Events, HookAdd(p, e)
    PROVE  GameInv'
<1>1. phase # "down" /\ phase' = phase
    BY RunsAlive DEF HookAdd
<1>2. GameTypeOK /\ SoundCalls(stack) /\ ChainsInPlace /\ ListenersHeard /\ NothingOfLua
    BY DEF GameInv
<1>3. listeners' \in [Events -> SUBSET Plugins]
      /\ \A x \in Events : listeners'[x] = IF x = e THEN listeners[x] \cup {p} ELSE listeners[x]
    BY <1>2 DEF HookAdd, GameTypeOK
<1>4. late' \subseteq Plugins \X Events /\ late \subseteq late'
      /\ ({c \in Chains : e \in EventsOf(c)} \subseteq hooked \/ <<p, e>> \in late')
    BY <1>2 DEF HookAdd, GameTypeOK
<1>5. GameTypeOK'
    BY <1>2, <1>3, <1>4 DEF HookAdd, GameTypeOK
<1>6. ChainsInPlace' /\ SoundCalls(stack')
    BY <1>2 DEF HookAdd, ChainsInPlace
<1>7. ListenersHeard'
  <2>1. ASSUME NEW c \in Chains, NEW x \in EventsOf(c), NEW q \in listeners'[x]
        PROVE  c \in hooked \/ <<q, x>> \in late'
    <3>1. x \in Events
        BY ChainFacts
    <3>2. CASE q \in listeners[x]
        BY <1>2, <1>4, <3>2 DEF ListenersHeard
    <3>3. CASE q \notin listeners[x]
      <4>1. x = e /\ q = p
          BY <1>3, <2>1, <3>1, <3>3
      <4> QED BY <1>4, <4>1
    <3> QED BY <3>2, <3>3
  <2> QED BY <2>1 DEF ListenersHeard, HookAdd
<1>8. NothingOfLua'
    BY <1>1 DEF NothingOfLua
<1> QED BY <1>5, <1>6, <1>7, <1>8 DEF GameInv

LEMMA HookRemoveKeeps ==
    ASSUME Parameters, GameInv, NEW p \in Plugins, NEW e \in Events, HookRemove(p, e)
    PROVE  GameInv'
<1>1. phase # "down" /\ phase' = phase
    BY RunsAlive DEF HookRemove
<1>2. GameTypeOK /\ SoundCalls(stack) /\ ChainsInPlace /\ ListenersHeard /\ NothingOfLua
    BY DEF GameInv
<1>3. listeners' \in [Events -> SUBSET Plugins]
      /\ \A x \in Events : listeners'[x] = IF x = e THEN listeners[x] \ {p} ELSE listeners[x]
    BY <1>2 DEF HookRemove, GameTypeOK
<1>4. late' = late \ {<<p, e>>} /\ late' \subseteq Plugins \X Events
    BY <1>2 DEF HookRemove, GameTypeOK
<1>5. SoundCalls(stack') /\ Len(stack') = Len(stack)
    BY <1>2, ForgetsSound DEF HookRemove
<1>6. GameTypeOK'
    BY <1>2, <1>3, <1>4, <1>5 DEF HookRemove, GameTypeOK, SoundCalls
<1>7. ChainsInPlace'
    BY <1>2 DEF HookRemove, ChainsInPlace
<1>8. ListenersHeard'
  <2>1. ASSUME NEW c \in Chains, NEW x \in EventsOf(c), NEW q \in listeners'[x]
        PROVE  c \in hooked \/ <<q, x>> \in late'
    <3>1. x \in Events
        BY ChainFacts
    <3>2. q \in listeners[x] /\ ~(x = e /\ q = p)
        BY <1>3, <2>1, <3>1
    <3>3. c \in hooked \/ <<q, x>> \in late
        BY <1>2, <3>2 DEF ListenersHeard
    <3> QED BY <1>4, <3>2, <3>3
  <2> QED BY <2>1 DEF ListenersHeard, HookRemove
<1>9. NothingOfLua'
    BY <1>1 DEF NothingOfLua
<1> QED BY <1>5, <1>6, <1>7, <1>8, <1>9 DEF GameInv

LEMMA UnloadKeeps ==
    ASSUME Parameters, GameInv, NEW p \in Plugins, Unload(p)
    PROVE  GameInv'
<1>1. /\ phase' = phase /\ phase # "down" /\ states' = states /\ loaded' = loaded \ {p}
      /\ Sync(Without(p)) /\ stack' = Forgets(p, Events)
    BY DEF Unload
<1>2. SoundCalls(stack') /\ Len(stack') = Len(stack)
    BY <1>1, ForgetsSound DEF GameInv
<1>3. /\ listeners' \in [Events -> SUBSET Plugins] /\ late' = {}
      /\ installed' \subseteq Chains /\ hooked' \subseteq Chains /\ fatal' \in BOOLEAN
      /\ ChainsInPlace' /\ ListenersHeard'
    BY <1>1, WithoutType, SyncKeeps
<1>4. GameTypeOK'
    BY <1>1, <1>2, <1>3 DEF GameInv, GameTypeOK, SoundCalls
<1>5. NothingOfLua'
    BY <1>1 DEF NothingOfLua
<1> QED BY <1>2, <1>3, <1>4, <1>5 DEF GameInv

\* The handlers of a plugin go, and what was late of them.
LEMMA WithoutHeard ==
    ASSUME Parameters, GameInv, NEW p \in Plugins, listeners' = Without(p),
           late' = {h \in late : h[1] # p}, hooked' = hooked
    PROVE  /\ listeners' \in [Events -> SUBSET Plugins]
           /\ late' \subseteq Plugins \X Events /\ ListenersHeard'
<1>1. /\ listeners' \in [Events -> SUBSET Plugins]
      /\ \A e \in Events : listeners'[e] = listeners[e] \ {p}
    BY WithoutType
<1>2. late' \subseteq Plugins \X Events
    BY DEF GameInv, GameTypeOK
<1>3. ASSUME NEW c \in Chains, NEW x \in EventsOf(c), NEW q \in listeners'[x]
      PROVE  c \in hooked \/ <<q, x>> \in late'
  <2>1. x \in Events
      BY ChainFacts
  <2>2. q \in listeners[x] /\ q # p
      BY <1>1, <1>3, <2>1
  <2>3. c \in hooked \/ <<q, x>> \in late
      BY <2>2 DEF GameInv, ListenersHeard
  <2>4. <<q, x>>[1] = q
      OBVIOUS
  <2> QED BY <2>2, <2>3, <2>4
<1> QED BY <1>1, <1>2, <1>3 DEF ListenersHeard

LEMMA LoadKeeps ==
    ASSUME Parameters, GameInv, NEW p \in Plugins, Load(p)
    PROVE  GameInv'
<1>1. /\ phase' = phase /\ phase # "down" /\ states' = states /\ loaded' = loaded \cup {p}
      /\ Len(stack) < MaxDepth
      /\ stack' = Append(Forgets(p, Events), LoadOf(p))
      /\ installed' = installed /\ hooked' = hooked /\ fatal' = fatal
    BY DEF Load
<1>2. SoundCalls(Forgets(p, Events)) /\ Len(Forgets(p, Events)) = Len(stack)
    BY ForgetsSound DEF GameInv
<1>3. PICK s : s = Forgets(p, Events)
    OBVIOUS
<1>4. SoundCalls(stack') /\ Len(stack') = Len(stack) + 1
    BY <1>1, <1>2, <1>3, LoadFrame, PushSound DEF SoundCalls
<1>5. Len(stack') <= MaxDepth
    BY <1>1, <1>4 DEF Parameters, GameInv, SoundCalls
<1>6. /\ listeners' \in [Events -> SUBSET Plugins]
      /\ late' \subseteq Plugins \X Events /\ ListenersHeard'
    BY WithoutHeard DEF Load
<1>7. GameTypeOK'
    BY <1>1, <1>4, <1>5, <1>6 DEF GameInv, GameTypeOK, SoundCalls
<1>8. ChainsInPlace'
    BY <1>1 DEF GameInv, ChainsInPlace
<1>9. NothingOfLua'
    BY <1>1 DEF NothingOfLua
<1> QED BY <1>4, <1>6, <1>7, <1>8, <1>9 DEF GameInv

LEMMA LoadEndsKeeps ==
    ASSUME Parameters, GameInv, LoadEnds
    PROVE  GameInv'
<1>1. /\ stack # <<>> /\ Top.at = "load" /\ stack' = Below /\ phase' = phase /\ states' = states
      /\ loaded' = loaded /\ phase # "down"
    BY DEF LoadEnds
<1>2. SoundCalls(stack') /\ Len(stack') <= MaxDepth
    BY <1>1, PopSound DEF GameInv, GameTypeOK, Parameters
<1>3. NothingOfLua'
    BY <1>1 DEF NothingOfLua
<1>4. /\ listeners \in [Events -> SUBSET Plugins]
      /\ Without(Top.running) \in [Events -> SUBSET Plugins]
    BY WithoutType DEF GameInv, GameTypeOK
<1>5. CASE Sync(listeners) \/ Sync(Without(Top.running))
  <2>1. /\ listeners' \in [Events -> SUBSET Plugins] /\ late' = {}
        /\ installed' \subseteq Chains /\ hooked' \subseteq Chains /\ fatal' \in BOOLEAN
        /\ ChainsInPlace' /\ ListenersHeard'
      BY <1>4, <1>5, SyncKeeps
  <2>2. GameTypeOK'
      BY <1>1, <1>2, <2>1 DEF GameInv, GameTypeOK, SoundCalls
  <2> QED BY <1>2, <1>3, <2>1, <2>2 DEF GameInv
<1>6. CASE UNCHANGED <<installed, hooked, fatal, listeners, late>>
  <2>1. GameTypeOK'
      BY <1>1, <1>2, <1>6 DEF GameInv, GameTypeOK, SoundCalls
  <2>2. ChainsInPlace' /\ ListenersHeard'
      BY <1>6 DEF GameInv, ChainsInPlace, ListenersHeard
  <2> QED BY <1>2, <1>3, <2>1, <2>2 DEF GameInv
<1>7. CASE /\ UNCHANGED <<installed, hooked, fatal>>
           /\ listeners' = Without(Top.running) /\ late' = {h \in late : h[1] # Top.running}
  <2>1. Top.running \in Plugins
      BY <1>1, TopFacts DEF SoundCall
  <2>2. /\ listeners' \in [Events -> SUBSET Plugins]
        /\ late' \subseteq Plugins \X Events /\ ListenersHeard'
      BY <1>7, <2>1, WithoutHeard
  <2>3. GameTypeOK'
      BY <1>1, <1>2, <1>7, <2>2 DEF GameInv, GameTypeOK, SoundCalls
  <2>4. ChainsInPlace'
      BY <1>7 DEF GameInv, ChainsInPlace
  <2> QED BY <1>2, <1>3, <2>2, <2>3, <2>4 DEF GameInv
<1> QED BY <1>5, <1>6, <1>7 DEF LoadEnds

LEMMA ShutdownKeeps ==
    ASSUME GameInv, Shutdown
    PROVE  GameInv'
<1>1. GameTypeOK' /\ SoundCalls(stack') /\ ChainsInPlace' /\ ListenersHeard'
    BY DEF GameInv, Shutdown, GameTypeOK, ChainsInPlace, ListenersHeard
<1>2. NothingOfLua'
    BY DEF Shutdown, NothingOfLua
<1> QED BY <1>1, <1>2 DEF GameInv

LEMMA CloseStateKeeps ==
    ASSUME Parameters, GameInv, CloseState
    PROVE  GameInv'
<1>1. /\ phase' = "down" /\ states' = states /\ loaded' = {} /\ stack' = stack /\ stack = <<>>
      /\ hooked' = {c \in hooked : ~IsGame(c)} /\ installed' = {} /\ fatal' = fatal
      /\ listeners' = [e \in Events |-> {}] /\ late' = {}
    BY DEF CloseState, RemoveHooks
<1>2. GameTypeOK'
    BY <1>1 DEF GameInv, GameTypeOK
<1>3. ChainsInPlace'
    BY <1>1 DEF GameInv, ChainsInPlace
<1>4. ListenersHeard'
    BY <1>1, ChainFacts DEF ListenersHeard
<1>5. NothingOfLua'
    BY <1>1 DEF NothingOfLua
<1> QED BY <1>1, <1>2, <1>3, <1>4, <1>5 DEF GameInv

LEMMA StartKeeps ==
    ASSUME Parameters, GameInv, Start
    PROVE  GameInv'
<1>1. /\ phase' = "starting" /\ states' = states + 1 /\ states < MaxStates
      /\ UNCHANGED <<loaded, listeners, installed, hooked, fatal, stack, late>>
    BY DEF Start
<1>2. GameTypeOK'
    BY <1>1 DEF GameInv, GameTypeOK, Parameters
<1>3. ChainsInPlace' /\ ListenersHeard'
    BY <1>1 DEF GameInv, ChainsInPlace, ListenersHeard
<1>4. NothingOfLua'
    BY <1>1 DEF NothingOfLua
<1> QED BY <1>1, <1>2, <1>3, <1>4 DEF GameInv

LEMMA LoadNextKeeps ==
    ASSUME Parameters, GameInv, NEW p \in Plugins, LoadNext(p)
    PROVE  GameInv'
<1>1. /\ phase = "starting" /\ stack = <<>> /\ loaded' = loaded \cup {p} /\ stack' = <<LoadOf(p)>>
      /\ UNCHANGED <<phase, states, listeners, installed, hooked, fatal, late>>
    BY DEF LoadNext
<1>2. stack' = Append(stack, LoadOf(p))
    BY <1>1
<1>3. SoundCalls(stack') /\ Len(stack') = 1
    BY <1>1, <1>2, LoadFrame, PushSound DEF GameInv
<1>4. GameTypeOK'
    BY <1>1, <1>3 DEF GameInv, GameTypeOK, Parameters, SoundCalls
<1>5. ChainsInPlace' /\ ListenersHeard'
    BY <1>1 DEF GameInv, ChainsInPlace, ListenersHeard
<1>6. NothingOfLua'
    BY <1>1 DEF NothingOfLua
<1> QED BY <1>3, <1>4, <1>5, <1>6 DEF GameInv

LEMMA StartedKeeps ==
    ASSUME Parameters, GameInv, Started
    PROVE  GameInv'
<1>1. phase' = "up" /\ Sync(listeners) /\ UNCHANGED <<states, loaded, stack>>
    BY DEF Started
<1>2. /\ listeners' \in [Events -> SUBSET Plugins] /\ late' = {}
      /\ installed' \subseteq Chains /\ hooked' \subseteq Chains /\ fatal' \in BOOLEAN
      /\ ChainsInPlace' /\ ListenersHeard'
    BY <1>1, SyncKeeps DEF GameInv, GameTypeOK
<1>3. GameTypeOK'
    BY <1>1, <1>2 DEF GameInv, GameTypeOK
<1>4. NothingOfLua'
    BY <1>1 DEF NothingOfLua
<1> QED BY <1>1, <1>2, <1>3, <1>4 DEF GameInv

LEMMA GameBegins ==
    ASSUME Parameters, GameInit
    PROVE  GameInv
<1>1. SoundCalls(stack) /\ Len(stack) = 0
    BY DEF GameInit, SoundCalls
<1>2. listeners \in [Events -> SUBSET Plugins] /\ states \in 0..MaxStates /\ hooked \subseteq Chains
    BY DEF GameInit, Parameters
<1>3. GameTypeOK
  <2>1. stack \in Seq(Frame) /\ Len(stack) <= MaxDepth
      BY <1>1 DEF SoundCalls, Parameters
  <2>2. installed \subseteq Chains /\ late \subseteq Plugins \X Events /\ loaded \subseteq Plugins
      BY DEF GameInit
  <2> QED BY <1>2, <2>1, <2>2 DEF GameInit, GameTypeOK
<1>4. ChainsInPlace
    BY DEF GameInit, ChainsInPlace
<1>5. ListenersHeard
    BY ChainFacts DEF GameInit, ListenersHeard
<1>6. NothingOfLua
    BY DEF GameInit, NothingOfLua
<1> QED BY <1>1, <1>3, <1>4, <1>5, <1>6 DEF GameInv

LEMMA GameGoesOn ==
    ASSUME Parameters, GameInv, [GameNext]_gameVars
    PROVE  GameInv'
<1>1. CASE UNCHANGED gameVars
  <2>1. stack' = stack /\ OnlyCalls /\ SoundCalls(stack) /\ Len(stack) <= MaxDepth
      BY <1>1 DEF gameVars, OnlyCalls, GameInv, GameTypeOK
  <2>2. phase = "down" => \A i \in 1..Len(stack) : stack[i].running = Nobody
      BY DEF GameInv, NothingOfLua
  <2> QED BY <2>1, <2>2, QuietStep
<1>2. ASSUME NEW p \in Plugins, NEW e \in Events, HookAdd(p, e) \/ HookRemove(p, e)
      PROVE  GameInv'
    BY <1>2, HookAddKeeps, HookRemoveKeeps
<1>3. ASSUME NEW p \in Plugins, Unload(p) \/ Load(p) \/ LoadNext(p) \/ Handle(p)
      PROVE  GameInv'
    BY <1>3, UnloadKeeps, LoadKeeps, LoadNextKeeps, HandleKeeps
<1>4. ASSUME NEW c \in Chains, GameCalls(c)
      PROVE  GameInv'
    BY <1>4, GameCallsKeeps
<1>5. ASSUME NEW v \in Values, WriteAmount(v)
      PROVE  GameInv'
    BY <1>5, WriteKeeps
<1> QED BY <1>1, <1>2, <1>3, <1>4, <1>5, LoadEndsKeeps, CancelKeeps, HandlerReturnsKeeps, CallNextKeeps,
           GameReturnsKeeps, LeaveKeeps, ShutdownKeeps, CloseStateKeeps, StartKeeps, StartedKeeps
        DEF GameNext

LEMMA GameInductive == GameSpec => []GameInv
<1>1. GameInit => GameInv
    BY GameBegins, GameEventsConstants
<1>2. GameInv /\ [GameNext]_gameVars => GameInv'
    BY GameGoesOn, GameEventsConstants
<1> QED BY <1>1, <1>2, PTL DEF GameSpec

\* The flags of sync_hook, the registries of the game, the handlers and the four
\* tables agree between any two steps, for every choice of chains and plugins and
\* any depth of nested calls.
THEOREM GameConsistentAlways == GameSpec => []GameConsistent
<1>1. ASSUME GameInv PROVE GameConsistent
  <2>1. FlagsMatchChains
      BY <1>1 DEF GameInv, ChainsInPlace, FlagsMatchChains
  <2>2. NobodyCallsTheDead
    <3>1. ASSUME phase = "down" PROVE Handlers = {}
        BY <1>1, <3>1 DEF GameInv, NothingOfLua, Handlers
    <3>2. DOMAIN stack = 1..Len(stack)
        BY <1>1 DEF GameInv, SoundCalls
    <3> QED BY <1>1, <3>1, <3>2 DEF GameInv, NothingOfLua, NobodyCallsTheDead
  <2>3. ListenersAreHeard
      BY <1>1 DEF GameInv, ListenersHeard, ListenersAreHeard
  <2> QED BY <1>1, <2>1, <2>2, <2>3, TheTablesAgree DEF GameInv, GameConsistent
<1> QED BY <1>1, GameInductive, PTL

\* What the game goes on with is what all of the handlers left.
THEOREM GameGetsWhatWasLeftAlways == GameSpec => []GameGetsWhatWasLeft
<1>1. ASSUME GameInv PROVE GameGetsWhatWasLeft
  <2>1. DOMAIN stack = 1..Len(stack) /\ \A i \in 1..Len(stack) : SoundCall(stack[i])
      BY <1>1 DEF GameInv, SoundCalls
  <2> QED BY <2>1 DEF GameGetsWhatWasLeft, SoundCall
<1> QED BY <1>1, GameInductive, PTL

\* No step but Drop takes a frame from the stack before its call was made.
LEMMA DropsOnDemand ==
    ASSUME Parameters, GameInv, [GameNext]_gameVars, Len(stack') < Len(stack), Top.at = "before"
    PROVE  Top.accepted \/ (Event[Current(Top)].reads /\ Top.value = 0)
<1>1. SoundCalls(stack) /\ Len(stack) \in Nat
    BY DEF GameInv, SoundCalls
<1>2. stack # <<>>
  <2>1. Len(stack') \in Nat
      BY GameGoesOn DEF GameInv, SoundCalls
  <2> QED BY <1>1, <2>1
<1>3. /\ Top \in Frame /\ SoundCall(Top)
      /\ Len(Below) = Len(stack) - 1 /\ SoundCalls(Below)
    BY <1>1, <1>2, PopSound
<1>4. \A f : Len(Append(Below, f)) = Len(stack)
    BY <1>1, <1>2, <1>3 DEF SoundCalls
<1>5. \A p, events : Len(Forgets(p, events)) = Len(stack)
    BY <1>1, ForgetsSound
<1>6. \A f : Len(Append(stack, f)) = Len(stack) + 1
    BY <1>1 DEF SoundCalls
<1>7. \A p, f : Len(Append(Forgets(p, Events), f)) = Len(stack) + 1
    BY <1>5, ForgetsSound, <1>1 DEF SoundCalls
<1>8. Drop
  <2>1. stack' # stack
      OBVIOUS
  <2>2. ~Cancel /\ ~HandlerReturns /\ ~CallNext
      BY <1>4 DEF Cancel, HandlerReturns, CallNext
  <2>3. ASSUME NEW p \in Plugins
        PROVE  /\ ~Unload(p) /\ ~Load(p) /\ ~LoadNext(p) /\ ~Handle(p)
               /\ \A e \in Events : ~HookAdd(p, e) /\ ~HookRemove(p, e)
    <3>1. ~Unload(p)
        BY <1>1, <1>5 DEF Unload
    <3>2. ~Load(p)
        BY <1>1, <1>7 DEF Load
    <3>3. ~LoadNext(p)
        BY <1>2 DEF LoadNext
    <3>4. ~Handle(p)
        BY <1>1, <1>4 DEF Handle
    <3>5. \A e \in Events : ~HookAdd(p, e) /\ ~HookRemove(p, e)
        BY <1>1, <1>5, <2>1 DEF HookAdd, HookRemove
    <3> QED BY <3>1, <3>2, <3>3, <3>4, <3>5
  <2>4. \A c \in Chains : ~GameCalls(c)
      BY <1>1, <1>6 DEF GameCalls
  <2>5. \A v \in Values : ~WriteAmount(v)
      BY <1>1, <1>4 DEF WriteAmount
  <2>6. ~GameReturns /\ ~HookReturns /\ ~LoadEnds
      BY DEF GameReturns, HookReturns, LoadEnds
  <2>7. ~Shutdown /\ ~CloseState /\ ~Start /\ ~Started
      BY <2>1 DEF Shutdown, CloseState, Start, Started
  <2> QED BY <2>1, <2>2, <2>3, <2>4, <2>5, <2>6, <2>7 DEF GameNext, gameVars
<1>9. Stops(Top)
    BY <1>8 DEF Drop
<1>10. /\ Top.chain \in Chains /\ Hook[Top.chain].before # NoEvent
       /\ Current(Top) = Hook[Top.chain].before
       /\ (Top.accepted <=> Top.cancelled /\ Hook[Top.chain].before \in Cancellable)
    BY <1>3 DEF SoundCall, Current
<1>11. CASE Hook[Top.chain].stop = "cancelled"
  <2>1. Hook[Top.chain].before \in Cancellable
      BY <1>10, <1>11, ChainFacts
  <2>2. Top.cancelled
      BY <1>9, <1>11 DEF Stops
  <2> QED BY <1>10, <2>1, <2>2
<1>12. CASE Hook[Top.chain].stop = "nothing left"
  <2>1. Hook[Top.chain].before \in Cancellable
      BY <1>10, <1>12, ChainFacts
  <2>2. Event[Hook[Top.chain].before].reads
      BY <1>10, <1>12, ChainFacts
  <2>3. Top.cancelled \/ Top.value = 0
      BY <1>9, <1>12 DEF Stops
  <2> QED BY <1>10, <2>1, <2>2, <2>3
<1>13. Hook[Top.chain].stop # "never"
    BY <1>9 DEF Stops
<1> QED BY <1>10, <1>11, <1>12, <1>13, ChainFacts

\* A call is dropped only when a handler was allowed to cancel it or left nothing
\* of its amount.
THEOREM DroppedOnlyOnDemandAlways == GameSpec => DroppedOnlyOnDemand
<1>1. GameInv /\ [GameNext]_gameVars =>
          [(Len(stack') < Len(stack) /\ Top.at = "before") =>
              Top.accepted \/ (Event[Current(Top)].reads /\ Top.value = 0)]_stack
    BY DropsOnDemand, GameEventsConstants
<1> QED BY <1>1, GameInductive, PTL DEF GameSpec, DroppedOnlyOnDemand

-----------------------------------------------------------------------------
(* Access: entries                                                         *)

LEMMA TermFacts ==
    /\ None \in Term /\ Ever \in Term /\ Ever # None
    /\ \A t \in Term : t.kind = "until" => t.at \in 1..MaxTime
    /\ \A t \in Term : t.kind = "until" => t # None
BY DEF Term, None, Ever

\* What grant gives a term of is one.
LEMMA GrantTermType == TypeOK => GrantTerms \subseteq Term
BY DEF GrantTerms, Term, TypeOK

LEMMA EntryForType == users \in Entries => EntryFor \in Entry
BY TermFacts DEF Entries, EntryFor, Entry

LEMMA GrantedType ==
    ASSUME NEW e \in Entry, NEW t \in Term
    PROVE  Granted(e, t) \in Entry /\ GrantedOwn(e, t) \in Entry
BY TermFacts DEF Granted, GrantedOwn, Entry

LEMMA PrunedType == ASSUME NEW e \in Entries PROVE Pruned(e) \in Entries
<1>1. CASE e = NoEntry
    BY <1>1 DEF Pruned
<1>2. CASE e \in Entry
    BY <1>2, TermFacts, AccessConstants DEF Pruned, Entries, Entry
<1> QED BY <1>1, <1>2 DEF Entries

LEMMA LoadsType == DataTypeOK => Loads(NoEntry, NoEntry) \in Entries
BY AccessConstants DEF DataTypeOK, Loads, OnDisk, Entries

LEMMA GrantsType == ASSUME NEW e PROVE Grants(e) \in SUBSET Parts
BY DEF Grants, Parts

LEMMA DeadlinesType == ASSUME NEW e \in Entries PROVE Deadlines(e) \in SUBSET (1..MaxTime)
<1>1. CASE e = NoEntry
    BY <1>1 DEF Deadlines
<1>2. CASE e # NoEntry
  <2>1. e.group \in Term /\ e.until \in Term
      BY <1>2 DEF Entries, Entry
  <2> QED BY <1>2, <2>1, TermFacts DEF Deadlines
<1> QED BY <1>1, <1>2

\* What is read in is pruned without taking a grant that lasts.
LEMMA PrunedGrants == ASSUME NEW e \in Entries PROVE Grants(Pruned(e)) = Grants(e)
<1>1. CASE e = NoEntry
    BY <1>1 DEF Pruned
<1>2. CASE e \in Entry
  <2>1. e # NoEntry
      BY <1>2, AccessConstants
  <2>2. e.group \in Term /\ e.until \in Term \ {None} /\ e.own \in BOOLEAN
      BY <1>2 DEF Entry
  <2> DEFINE g    == IF Expired(e.group) THEN None ELSE e.group
             kept == IF Expired(e.until) THEN [group |-> g, own |-> FALSE, until |-> Ever]
                     ELSE [e EXCEPT !.group = g]
  <2>3. kept \in Entry /\ kept.group = g
      BY <1>2, TermFacts DEF Entry
  <2>4. kept # NoEntry
      BY <2>3, AccessConstants
  <2>5. Holds(kept.group) <=> Holds(e.group)
      BY <2>2, <2>3 DEF Holds
  <2>6. (kept.own /\ Holds(kept.until)) <=> (e.own /\ Holds(e.until))
    <3>1. CASE Expired(e.until)
        BY <2>2, <3>1 DEF Holds
    <3>2. CASE ~Expired(e.until)
        BY <1>2, <3>2 DEF Entry
    <3> QED BY <3>1, <3>2
  <2>7. Grants(kept) = Grants(e)
      BY <2>1, <2>4, <2>5, <2>6 DEF Grants
  <2>8. Pruned(e) = IF g = None /\ ~kept.own THEN NoEntry ELSE kept
      BY <2>1 DEF Pruned
  <2>9. (g = None /\ ~kept.own) => Grants(kept) = {}
      BY <2>3, <2>4 DEF Grants, Holds
  <2>10. Grants(NoEntry) = {}
      BY DEF Grants
  <2> QED BY <2>7, <2>8, <2>9, <2>10
<1> QED BY <1>1, <1>2 DEF Entries
-----------------------------------------------------------------------------
(* Access: types                                                           *)

LEMMA BuildType == ASSUME TypeOK, NEW s \in Slots PROVE Build(s) \in Record
<1>1. Grants(users) \in SUBSET Parts
    BY GrantsType
<1>2. Deadlines(users) \in SUBSET (1..MaxTime)
    BY DeadlinesType DEF TypeOK
<1>3. map \in Maps
    BY DEF TypeOK
<1> QED BY <1>1, <1>2, <1>3 DEF Build, Record

LEMMA NewGenerationType ==
    ASSUME TypeOK, NewGeneration
    PROVE  cache' \in [Slots -> {NoCache} \cup Record] /\ half' \in BOOLEAN
<1> SUFFICES ASSUME NEW s \in Slots, cache[s] # NoCache
             PROVE  [cache[s] EXCEPT !.generation = "past"] \in Record
    BY DEF NewGeneration
<1>1. cache[s] \in Record
    BY DEF TypeOK
<1> QED BY <1>1 DEF Record

LEMMA SaveType ==
    ASSUME DataTypeOK, SaveGoesOn \/ Dies \/ (\E t \in Tables : SaveBegins(t))
    PROVE  DataTypeOK'
<1> USE DEF DataTypeOK, Saving, OnDisk
<1>1. CASE Write
    BY <1>1 DEF Write
<1>2. CASE DropBackup
    BY <1>2 DEF DropBackup
<1>3. CASE PutAside
    BY <1>3 DEF PutAside, Aside
<1>4. CASE Move
    BY <1>4 DEF Move
<1>5. CASE MoveFails
    BY <1>5 DEF MoveFails
<1>6. CASE Dies
    BY <1>6 DEF Dies
<1>7. ASSUME NEW t \in Tables, SaveBegins(t) PROVE DataTypeOK'
    BY <1>7 DEF SaveBegins
<1> QED BY <1>1, <1>2, <1>3, <1>4, <1>5, <1>6, <1>7 DEF SaveGoesOn

LEMMA TypeInit == Init => TypeOK
<1> SUFFICES ASSUME Init PROVE TypeOK
    OBVIOUS
<1>1. DataTypeOK
    BY DEF Init, DataInit, DataTypeOK, OnDisk, Saving
<1>2. now \in 0..MaxTime /\ changes \in 0..MaxChanges
    BY AccessConstants DEF Init
<1> QED BY <1>1, <1>2 DEF Init, TypeOK, Entries

LEMMA TypeStep == TypeOK /\ [Next]_vars => TypeOK'
<1> SUFFICES ASSUME TypeOK, [Next]_vars PROVE TypeOK'
    OBVIOUS
<1> DEFINE Quiet == UNCHANGED dataVars
<1>1. Quiet => DataTypeOK'
    BY DEF TypeOK, DataTypeOK, dataVars, Saving
<1>2. Counts => changes' \in 0..MaxChanges
    BY AccessConstants DEF Counts, TypeOK
<1>3. ASSUME NEW s \in Slots, Can(s) PROVE TypeOK'
    BY <1>1, <1>3, BuildType DEF Can, TypeOK
<1>4. ASSUME NEW s \in Slots, Rename(s) PROVE TypeOK'
    BY <1>1, <1>4 DEF Rename, TypeOK
<1>5. ASSUME NEW s \in Slots, NEW is \in BOOLEAN, Authorize(s, is) PROVE TypeOK'
    BY <1>1, <1>5 DEF Authorize, TypeOK
<1>6. ASSUME NEW t \in GrantTerms, NEW own \in BOOLEAN, Grant(t, own) PROVE TypeOK'
  <2>1. users' \in Entries
      BY <1>6, GrantTermType, EntryForType, GrantedType DEF Grant, TypeOK, Entries
  <2> QED BY <1>1, <1>2, <1>6, <2>1, NewGenerationType DEF Grant, TypeOK
<1>7. ASSUME NEW t \in GrantTerms, GrantFails(t) PROVE TypeOK'
  <2>1. users' \in Entries
      BY <1>7, GrantTermType, EntryForType, GrantedType DEF GrantFails, TypeOK, Entries
  <2> QED BY <1>1, <1>2, <1>7, <2>1 DEF GrantFails, TypeOK
<1>8. ASSUME NEW ps \in (SUBSET Parts) \ {{}}, Revoke(ps) PROVE TypeOK'
  <2>1. users' \in Entries
      BY <1>8, TermFacts DEF Revoke, TypeOK, Entries, Entry
  <2> QED BY <1>1, <1>2, <1>8, <2>1, NewGenerationType DEF Revoke, TypeOK
<1>9. CASE Save
    BY <1>2, <1>9, SaveType, AccessConstants DEF Save, TypeOK
<1>10. CASE SaveStep
    BY <1>10, SaveType DEF SaveStep, TypeOK
<1>11. CASE Reload
    BY <1>1, <1>11, LoadsType, PrunedType DEF Reload, TypeOK
<1>12. CASE Crash
    BY <1>12, SaveType, LoadsType, PrunedType DEF Crash, TypeOK
<1>13. CASE Tick
    BY <1>1, <1>13, AccessConstants DEF Tick, TypeOK
<1>14. CASE ChangeMap
    BY <1>1, <1>14 DEF ChangeMap, TypeOK
<1>15. CASE UNCHANGED vars
    BY <1>1, <1>15 DEF vars, TypeOK
<1> QED BY <1>3, <1>4, <1>5, <1>6, <1>7, <1>8, <1>9, <1>10, <1>11, <1>12, <1>13,
           <1>14, <1>15 DEF Next

\* The variables keep their types.
THEOREM TypeCorrect == Spec => []TypeOK
BY TypeInit, TypeStep, PTL DEF Spec

\* Types, and that reading the file in takes nothing that lasts: what the run
\* checks as one invariant.
THEOREM ConsistentAlways == Spec => []Consistent
<1>1. TypeOK => PruningTakesNothing
    BY PrunedGrants DEF PruningTakesNothing
<1> QED BY <1>1, TypeCorrect, PTL DEF Consistent

-----------------------------------------------------------------------------
(* Access: saving                                                          *)

\* The live file is that of the last good save, or is not there before the first
\* one, or lies as .bak beside the new file, between the two renames.
SaveInOrder ==
    \/ full \/ exposed
    \/ /\ step \in {"drop", "aside", "move"} => tmp = saving
       /\ \/ file = good /\ good # NoTable /\ (step = "move" => bak = Missing)
          \/ file = Missing /\ good = NoTable /\ bak = Missing
          \/ /\ file = Missing /\ bak = good /\ tmp = saving
             /\ good # NoTable /\ step \in {"move", "idle"}

LEMMA SaveInOrderInit == Init => SaveInOrder
BY DEF Init, DataInit, SaveInOrder

LEMMA SaveInOrderData ==
    ASSUME DataTypeOK, SaveInOrder,
           SaveGoesOn \/ Dies \/ (\E t \in Tables : SaveBegins(t))
    PROVE  SaveInOrder'
<1> USE DEF SaveInOrder
<1>1. CASE Write
    BY <1>1 DEF Write
<1>2. CASE DropBackup
    BY <1>2 DEF DropBackup
<1>3. CASE PutAside
    BY <1>3, DataConstants DEF PutAside, Aside, DataTypeOK
<1>4. CASE Move
    BY <1>4, DataConstants DEF Move, DataTypeOK, Saving
<1>5. CASE MoveFails
    BY <1>5 DEF MoveFails
<1>6. CASE Dies
    BY <1>6 DEF Dies
<1>7. ASSUME NEW t \in Tables, SaveBegins(t) PROVE SaveInOrder'
    BY <1>7 DEF SaveBegins, Saving
<1> QED BY <1>1, <1>2, <1>3, <1>4, <1>5, <1>6, <1>7 DEF SaveGoesOn

LEMMA SaveInOrderStep == TypeOK /\ SaveInOrder /\ [Next]_vars => SaveInOrder'
<1> SUFFICES ASSUME TypeOK, SaveInOrder, [Next]_vars PROVE SaveInOrder'
    OBVIOUS
<1>1. CASE UNCHANGED dataVars
    BY <1>1 DEF dataVars, SaveInOrder
<1>2. CASE Save
    BY <1>2, SaveInOrderData, AccessConstants DEF Save, TypeOK
<1>3. CASE SaveStep
    BY <1>3, SaveInOrderData DEF SaveStep, TypeOK
<1>4. CASE Crash
    BY <1>4, SaveInOrderData DEF Crash, TypeOK
<1> QED BY <1>1, <1>2, <1>3, <1>4 DEF Next, Can, Rename, Authorize, Grant, GrantFails,
           Revoke, Reload, Tick, ChangeMap, vars

\* Wherever a save stops, at a crash or at a rename that fails, the table saved last
\* is on the disk.
THEOREM SaveLosesNothingAlways == Spec => []SaveLosesNothing
<1>1. TypeOK /\ SaveInOrder => SaveLosesNothing
    BY DEF SaveInOrder, SaveLosesNothing
<1> QED BY <1>1, TypeCorrect, SaveInOrderInit, SaveInOrderStep, PTL DEF Spec
-----------------------------------------------------------------------------
(* Access: the cache                                                       *)

\* Grants, on any map and at any time.
HoldsAt(term, m, n) ==
    /\ term # None
    /\ ~(term.kind = "until" /\ term.at <= n)
    /\ ~(term.kind = "map" /\ term.at # m)

GrantsAt(entry, m, n) ==
    IF entry = NoEntry THEN {}
    ELSE (IF HoldsAt(entry.group, m, n) THEN {"group"} ELSE {})
         \cup (IF entry.own /\ HoldsAt(entry.until, m, n) THEN {"own"} ELSE {})

LEMMA GrantsNow == ASSUME NEW e PROVE Grants(e) = GrantsAt(e, map, now)
BY DEF Grants, GrantsAt, Holds, HoldsAt, Expired

\* A record of this generation has the times of the entry, and what the entry comes
\* to on the map of the record until the first of them.
Worth(record) ==
    /\ record.found => record.expires = Deadlines(users)
    /\ (\A t \in record.expires : t > now) =>
          record.rights = IF record.found THEN GrantsAt(users, record.map, now) ELSE {}

CacheInOrder ==
    half \/ \A s \in Slots :
        cache[s] # NoCache /\ cache[s].generation = "now" => Worth(cache[s])

LEMMA BuildWorth == ASSUME NEW s \in Slots PROVE Worth(Build(s))
BY GrantsNow DEF Worth, Build

\* Nothing of an entry ends at a time that is not among its times.
LEMMA GrantsLast ==
    ASSUME TypeOK, NEW m, NEW n \in Int, \A t \in Deadlines(users) : t > now /\ t > n
    PROVE  GrantsAt(users, m, n) = GrantsAt(users, m, now)
<1>1. CASE users = NoEntry
    BY <1>1 DEF GrantsAt
<1>2. CASE users # NoEntry
  <2>1. users.group \in Term /\ users.until \in Term
      BY <1>2 DEF TypeOK, Entries, Entry
  <2>2. ASSUME NEW t \in {users.group, users.until}, t.kind = "until"
        PROVE  ~(t.at <= now) /\ ~(t.at <= n)
    <3>1. t.at \in Deadlines(users)
        BY <1>2, <2>2 DEF Deadlines
    <3>2. t.at \in Int /\ now \in Int
        BY <2>1, <2>2, TermFacts, AccessConstants DEF TypeOK
    <3> QED BY <3>1, <3>2
  <2> QED BY <1>2, <2>2 DEF GrantsAt, HoldsAt
<1> QED BY <1>1, <1>2

LEMMA CacheInit == Init => CacheInOrder
BY DEF Init, CacheInOrder

LEMMA CacheStep == TypeOK /\ CacheInOrder /\ [Next]_vars => CacheInOrder'
<1> SUFFICES ASSUME TypeOK, CacheInOrder, [Next]_vars PROVE CacheInOrder'
    OBVIOUS
\* Nothing that a record is about changes.
<1>1. CASE UNCHANGED <<users, cache, now, half>>
    BY <1>1 DEF CacheInOrder, Worth, Deadlines, GrantsAt, HoldsAt
<1>2. ASSUME NEW s \in Slots, Can(s) PROVE CacheInOrder'
  <2>1. UNCHANGED <<users, now, half>> /\ cache' = [cache EXCEPT ![s] = Build(s)]
      BY <1>2 DEF Can
  <2>2. ASSUME NEW r PROVE Worth(r)' <=> Worth(r)
      BY <2>1 DEF Worth, Deadlines, GrantsAt, HoldsAt
  <2>3. ASSUME NEW q \in Slots PROVE cache'[q] = IF q = s THEN Build(s) ELSE cache[q]
      BY <2>1 DEF TypeOK
  <2> QED BY <2>1, <2>2, <2>3, BuildWorth DEF CacheInOrder
\* Nothing is of this generation any more.
<1>3. CASE NewGeneration
  <2>1. ASSUME NEW s \in Slots, cache'[s] # NoCache
        PROVE  cache'[s].generation = "past"
    <3>1. cache[s] # NoCache /\ cache'[s] = [cache[s] EXCEPT !.generation = "past"]
        BY <1>3, <2>1 DEF NewGeneration
    <3>2. cache[s] \in Record
        BY <3>1 DEF TypeOK
    <3> QED BY <3>1, <3>2 DEF Record
  <2> QED BY <2>1 DEF CacheInOrder
<1>4. CASE half'
    BY <1>4 DEF CacheInOrder
<1>5. CASE cache' = [s \in Slots |-> NoCache]
    BY <1>5 DEF CacheInOrder
<1>6. ASSUME NEW s \in Slots, NEW is \in BOOLEAN, Authorize(s, is) PROVE CacheInOrder'
  <2>1. UNCHANGED <<users, now, half>> /\ cache' = [cache EXCEPT ![s] = NoCache]
      BY <1>6 DEF Authorize
  <2>2. ASSUME NEW r PROVE Worth(r)' <=> Worth(r)
      BY <2>1 DEF Worth, Deadlines, GrantsAt, HoldsAt
  <2>3. ASSUME NEW q \in Slots PROVE cache'[q] = IF q = s THEN NoCache ELSE cache[q]
      BY <2>1 DEF TypeOK
  <2> QED BY <2>1, <2>2, <2>3 DEF CacheInOrder
<1>7. CASE Tick
  <2>1. UNCHANGED <<users, cache, half>> /\ now' = now + 1 /\ now \in Int
      BY <1>7, AccessConstants DEF Tick, TypeOK
  <2> SUFFICES ASSUME ~half, NEW s \in Slots,
                      cache[s] # NoCache, cache[s].generation = "now"
               PROVE  Worth(cache[s])'
      BY <2>1 DEF CacheInOrder
  <2> DEFINE r == cache[s]
  <2>2. Worth(r)
      BY DEF CacheInOrder
  <2>3. r.found => r.expires = Deadlines(users)'
      BY <2>1, <2>2 DEF Worth, Deadlines
  <2>4. ASSUME \A t \in r.expires : t > now'
        PROVE  r.rights = IF r.found THEN GrantsAt(users, r.map, now)' ELSE {}
    <3>1. \A t \in r.expires : t > now
      <4>1. r \in Record
          BY DEF TypeOK
      <4>2. \A t \in r.expires : t \in Int
          BY <4>1, AccessConstants DEF Record
      <4> QED BY <2>1, <2>4, <4>2
    <3>2. r.rights = IF r.found THEN GrantsAt(users, r.map, now) ELSE {}
        BY <2>2, <3>1 DEF Worth
    <3>3. r.found => GrantsAt(users, r.map, now)' = GrantsAt(users, r.map, now)
      <4> SUFFICES ASSUME r.found PROVE GrantsAt(users, r.map, now)' = GrantsAt(users, r.map, now)
          OBVIOUS
      <4>1. \A t \in Deadlines(users) : t > now /\ t > now + 1
          BY <2>1, <2>2, <2>4, <3>1 DEF Worth
      <4>2. GrantsAt(users, r.map, now + 1) = GrantsAt(users, r.map, now)
          BY <2>1, <4>1, GrantsLast
      <4>3. GrantsAt(users, r.map, now)' = GrantsAt(users, r.map, now + 1)
          BY <2>1 DEF GrantsAt, HoldsAt
      <4> QED BY <4>2, <4>3
    <3> QED BY <3>2, <3>3
  <2> QED BY <2>1, <2>3, <2>4 DEF Worth
<1>8. CASE (\E t \in GrantTerms, own \in BOOLEAN : Grant(t, own))
           \/ (\E ps \in (SUBSET Parts) \ {{}} : Revoke(ps))
    BY <1>3, <1>8 DEF Grant, Revoke
<1>9. CASE \E t \in GrantTerms : GrantFails(t)
    BY <1>4, <1>9 DEF GrantFails
<1>10. CASE (\E s \in Slots : Rename(s)) \/ Save \/ SaveStep \/ ChangeMap \/ UNCHANGED vars
    BY <1>1, <1>10 DEF Rename, Save, SaveStep, ChangeMap, vars
<1>11. CASE Reload \/ Crash
    BY <1>5, <1>11 DEF Reload, Crash
<1> QED BY <1>2, <1>6, <1>7, <1>8, <1>9, <1>10, <1>11 DEF Next

\* No answer from the cache outlives the grant it is about, and none comes late:
\* whatever is granted, revoked, loaded and renamed, and whichever map returns.
THEOREM CacheIsCurrentAlways == Spec => []CacheIsCurrent
<1>1. CacheInOrder => CacheIsCurrent
    BY GrantsNow DEF CacheInOrder, Worth, CacheIsCurrent, Good
<1> QED BY <1>1, TypeCorrect, CacheInit, TypeStep, TypeInit, CacheStep, PTL DEF Spec
=============================================================================
