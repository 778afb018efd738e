--------------------------- MODULE MCEventHandler ---------------------------
(* Constant values for the runs of EventHandler. *)
EXTENDS EventHandler, TLC

CONSTANTS m1, m2, m3, d1, d2, d3, u1, u2, c1, g1

Origin(u, isBot) == [user |-> u, channel |-> c1, guild |-> g1, bot |-> isBot]

\* Messages of two people, and one of a bot, which is refused before the detector runs.
MCContext == m1 :> Origin(u1, FALSE) @@ m2 :> Origin(u2, FALSE) @@ m3 :> Origin(u1, TRUE)

MCNoLists == {[allowGuilds |-> {}, denyGuilds |-> {}, allowChannels |-> {}, denyChannels |-> {}]}

MCNoOverride == {NoOverride}
=============================================================================
