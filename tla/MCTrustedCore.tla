--------------------------- MODULE MCTrustedCore ----------------------------
(* Constant values for the runs of TrustedCore. *)
EXTENDS TrustedCore, TLC

CONSTANTS m1, m2, m3, m4, m5, u1, u2, c1, c2, c3, g1, g2, dm

Origin(u, c, g) == [user |-> u, channel |-> c, guild |-> g, bot |-> FALSE]

\* Two messages of one channel, two of one user, and two that share nothing.
MCSpreadContext == m1 :> Origin(u1, c1, g1) @@ m2 :> Origin(u2, c1, g1) @@ m3 :> Origin(u2, c2, dm)

\* A message, a bot's, and one each from where the lists refuse.
MCMixedContext == m1 :> [Origin(u1, c1, g1) EXCEPT !.bot = TRUE] @@ m2 :> Origin(u1, c1, g1)
                  @@ m4 :> Origin(u1, c1, g2) @@ m5 :> Origin(u1, c3, g1)

MCNoLists == {[allowGuilds |-> {}, denyGuilds |-> {}, allowChannels |-> {}, denyChannels |-> {}]}

MCSomeLists ==
    {[allowGuilds |-> {}, denyGuilds |-> {g2}, allowChannels |-> {c1}, denyChannels |-> {}]}

MCOverrides == {NoOverride, "Normal"}
MCNoOverride == {NoOverride}

\* No guard reads what the last call returned, nor lastDetection: states that differ only
\* there have the same futures, and the properties of the runs that use this view hold or
\* fail alike in them (but for the types of verdict and lastDetection in TypeOK, which the
\* theorem TypeCorrect covers).
CoreView == <<now, settings, mode, seen, breaker, bucket, cooldowns, sandboxFailures,
              outbound, httpFailures, analyzerErrors>>
=============================================================================
