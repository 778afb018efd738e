--------------------------- MODULE OutboundPolicy ---------------------------
(***************************************************************************)
(* What the governor promises, told from outside: there is a clock, a flag *)
(* that says whether the bot has to be silent, and the list of what it did.*)
(* Whether it may act on a message follows from these three alone; there   *)
(* is no bucket, no cooldown table, no cache and no mode.  TrustedCore     *)
(* implements this specification.                                          *)
(***************************************************************************)
EXTENDS Integers, Sequences

CONSTANTS MsgIds, Context, NoGuild,
          Actions,                                     \* what the bot may do
          Capacity, RefillPerTick, TokenUnit,          \* the rate
          UserTtl, ChannelTtl, GuildTtl, GlobalTtl,    \* the cooldowns
          DuplicateTtl

VARIABLES clock,
          silenced,  \* the operator, or Discord's answers, want nothing sent
          sent       \* what the bot did

policyVars == <<clock, silenced, sent>>

\* Together with what was done since sent[i], one more action stays inside the rate.
WithinRate(i) ==
    TokenUnit * (Len(sent) - i + 2) <= Capacity + RefillPerTick * (clock - sent[i].at)

FarFrom(i, m) ==
    LET gap == clock - sent[i].at
        theirs == Context[sent[i].msg]
        mine == Context[m]
    IN  /\ theirs.user = mine.user => gap >= UserTtl
        /\ theirs.channel = mine.channel => gap >= ChannelTtl
        /\ theirs.guild = mine.guild /\ mine.guild # NoGuild => gap >= GuildTtl
        /\ gap >= GlobalTtl
        /\ sent[i].msg = m => gap > DuplicateTtl

Permitted(m) == ~silenced /\ \A i \in 1 .. Len(sent) : WithinRate(i) /\ FarFrom(i, m)

Do(m, action) ==
    /\ Permitted(m)
    /\ sent' = Append(sent, [at |-> clock, msg |-> m, action |-> action])
    /\ UNCHANGED <<clock, silenced>>

\* The bot does nothing, for whatever reason.
Rest ==
    /\ clock' \in {clock, clock + 1}
    /\ silenced' \in BOOLEAN
    /\ UNCHANGED sent

PolicyInit == clock = 0 /\ silenced \in BOOLEAN /\ sent = <<>>

PolicyNext == Rest \/ \E m \in MsgIds, action \in Actions : Do(m, action)

PolicySpec == PolicyInit /\ [][PolicyNext]_policyVars
=============================================================================
