---------------------------- MODULE TelnetOption ----------------------------
(***************************************************************************)
(* The negotiation of one side of one telnet option (telopt.c): the record *)
(* the modem keeps of it, the commands in flight, and a peer that follows  *)
(* RFC 1143.  The sides of the options are independent of each other, and  *)
(* their commands mirror each other, so that a command is only "ON" or     *)
(* "OFF": DO or DONT from the modem and WILL or WONT from the peer for an  *)
(* option of the peer, and the reverse for one of the modem.               *)
(***************************************************************************)
EXTENDS Integers, Sequences

CONSTANTS
    Wishes,      \* requirements that the settings (%B, %L, %T) can ask for
    PeerQuits,   \* the peer may turn off, unasked, an option it has on
    MaxCommands, \* bound: escapes and settings of the DTE
    MaxOffers    \* bound: commands the peer sends of its own accord

Req == {"MUSTNOT", "BETTERNOT", "NEUTRAL", "BETTER", "MUST"}   \* TelOptReq

ASSUME ParameterAssumption ==
    /\ Wishes \subseteq Req /\ Wishes # {} /\ PeerQuits \in BOOLEAN
    /\ MaxCommands \in Nat /\ MaxOffers \in Nat

VARIABLES
    wish,      \* the requirement that the settings of the modem ask for
    req,       \* TelOptState.req
    state,     \* TelOptState.state
    pending,   \* TelOptState.pending
    sentReqs,  \* telOpt.sentReqs
    online,    \* the modem is in ONLINE, not in CMD
    alive,     \* sock.conn.alive
    sockW,     \* commands in the socket write buffer
    wire,      \* commands on their way to the peer
    back,      \* commands on their way to the modem
    peer,      \* the state of the peer (RFC 1143)
    commands, offers,   \* what the bounds count
    asked,     \* history: telOptSendReqs() has put req to the peer
    hasty,     \* history: it has changed req under an unanswered request
    lost,      \* history: an escape has discarded commands
    kept       \* history: the peer has turned off, unasked, what the modem keeps on

opt == <<req, state, pending>>
vars == <<wish, req, state, pending, sentReqs, online, alive, sockW, wire, back,
          peer, commands, offers, asked, hasty, lost, kept>>

Command == {"ON", "OFF"}
Not(c) == IF c = "ON" THEN "OFF" ELSE "ON"

-----------------------------------------------------------------------------
(* The modem. *)

\* A command that contradicts r is answered with its opposite.
mustNegate(c)   == IF c = "ON" THEN "MUSTNOT" ELSE "MUST"
betterNegate(c) == IF c = "ON" THEN "BETTERNOT" ELSE "BETTER"

\* The branch of which the code says that it may not happen: the answer to a
\* request changes the option against the requirement.
AnswersAgain(c) == pending /\ req = betterNegate(c) /\ state # (c = "ON")

\* An unasked refusal of what the modem would rather have is answered by the
\* opposite, and the modem takes the option to be on still.
KeepsOn(c) == c = "OFF" /\ ~pending /\ state /\ req \in {"BETTER", "MUST"}

\* Mutant: a refusal is no reason to hang up.
telOptHandle_Stays(c) ==
    /\ pending' = FALSE /\ UNCHANGED <<wish, req, sentReqs, alive, asked, hasty>>
    /\ state' = (IF req \in {mustNegate(c), betterNegate(c)} THEN state ELSE c = "ON")
    /\ sockW' = IF ~pending /\ req \in {mustNegate(c), betterNegate(c)}
                THEN Append(sockW, Not(c)) ELSE sockW

\* Mutant: an offer is accepted without an answer.
telOptHandle_Silent(c) ==
    LET on == c = "ON"
        negate == req \in {mustNegate(c), betterNegate(c)}
    IN  /\ pending' = FALSE /\ UNCHANGED <<wish, req, sentReqs, asked, hasty>>
        /\ alive' = ~(pending /\ req = mustNegate(c))
        /\ state' = IF negate THEN state ELSE on
        /\ sockW' = IF negate /\ ~pending THEN Append(sockW, Not(c)) ELSE sockW

\* Mutant: a refusal is answered by the same request once more.
telOptHandle_Insists(c) ==
    LET negate == req \in {mustNegate(c), betterNegate(c)}
    IN  /\ pending' = FALSE /\ UNCHANGED <<wish, req, sentReqs, asked, hasty, alive>>
        /\ state' = IF negate THEN state ELSE c = "ON"
        /\ sockW' = IF negate THEN Append(sockW, Not(c)) ELSE sockW

\* telOptHandle() of command c: the reply, the record, and whether to hang up.
\* A command that is the answer to a request of the modem is not answered.
telOptHandle(c) ==
    LET on     == c = "ON"
        must   == req = mustNegate(c)
        negate == must \/ req = betterNegate(c)
        answer == CASE negate /\ ~pending         -> <<Not(c)>>
                    [] AnswersAgain(c)            -> <<c>>
                    [] ~negate /\ ~pending /\ state # on -> <<c>>
                    [] OTHER                      -> <<>>
    IN  /\ pending' = FALSE
        /\ alive' = ~(pending /\ must)
        /\ state' = IF negate /\ (~pending \/ must) THEN state ELSE on
        /\ sockW' = sockW \o answer
        /\ UNCHANGED <<wish, req, sentReqs, asked, hasty>>

\* What requirement r has to ask for when the option is in state s.
request(r, s) ==
    CASE r \in {"MUSTNOT", "BETTERNOT"} /\ s  -> <<"OFF">>
      [] r \in {"MUST", "BETTER"} /\ ~s       -> <<"ON">>
      [] OTHER                                -> <<>>

\* The requests have been put into sockW'.
Requested ==
    sentReqs' = TRUE /\ asked' = TRUE /\ hasty' = (hasty \/ pending)

\* Mutant: the table of setReqs() is one entry short.
telOptSendReqs_Short(r) ==
    /\ req' = (IF r = "MUST" THEN "UNDEFINED" ELSE r) /\ sockW' = request(r, state)
    /\ Requested /\ pending' = (sockW' # <<>>)

\* Mutant: every option counts as requested.
telOptSendReqs_Pending(r) ==
    /\ req' = r /\ sockW' = request(r, state)
    /\ Requested /\ pending' = TRUE

\* telOptSendReqs(), with setReqs().
telOptSendReqs(r) ==
    /\ req' = r /\ sockW' = request(r, state)
    /\ pending' = (pending \/ request(r, state) # <<>>)
    /\ Requested

\* stepEnterOnline(): the buffer starts empty, and the requests go out once.
stepEnterOnline ==
    /\ online' = TRUE
    /\ IF sentReqs THEN /\ sockW' = <<>>
                        /\ UNCHANGED <<req, pending, asked, hasty, sentReqs>>
                   ELSE telOptSendReqs(wish)

\* ATO.
Returns ==
    /\ ~online /\ alive /\ stepEnterOnline
    /\ UNCHANGED <<wish, state, alive, wire, back, peer, commands, offers, lost, kept>>

\* sockReadLoop() hands the command over.
Receives ==
    /\ online /\ alive /\ back # <<>>
    /\ telOptHandle(Head(back)) /\ back' = Tail(back)
    /\ kept' = (kept \/ KeepsOn(Head(back)))
    /\ UNCHANGED <<online, wire, peer, commands, offers, lost>>

\* sockBufWrite().
Sends ==
    /\ online /\ alive /\ sockW # <<>>
    /\ wire' = Append(wire, Head(sockW)) /\ sockW' = Tail(sockW)
    /\ UNCHANGED <<opt, wish, sentReqs, online, alive, back, peer, commands, offers,
                   asked, hasty, lost, kept>>

\* +++ or m2k_escape(): stepEnterCmd() discards what has not been sent.
Escapes ==
    /\ online /\ alive /\ commands < MaxCommands /\ commands' = commands + 1
    /\ online' = FALSE /\ sockW' = <<>> /\ lost' = (lost \/ sockW # <<>>)
    /\ UNCHANGED <<opt, wish, sentReqs, alive, wire, back, peer, offers, asked, hasty,
                   kept>>

\* AT%B and AT%L renegotiate when the modem returns online; AT%T and ATZ do not.
AtSets(w, again) ==
    /\ ~online /\ alive /\ commands < MaxCommands /\ commands' = commands + 1
    /\ wish' = w /\ sentReqs' = (sentReqs /\ ~again)
    /\ UNCHANGED <<opt, online, alive, sockW, wire, back, peer, offers, asked,
                   hasty, lost, kept>>

-----------------------------------------------------------------------------
(* The peer, after RFC 1143: WANTNO and WANTYES await an answer. *)

PeerAnswers ==
    /\ wire # <<>> /\ wire' = Tail(wire)
    /\ \/ /\ Head(wire) = "ON" /\ peer = "NO"
          /\ \/ peer' = "YES" /\ back' = Append(back, "ON")
             \/ peer' = "NO" /\ back' = Append(back, "OFF")
       \/ /\ Head(wire) = "OFF" /\ peer = "YES"
          /\ peer' = "NO" /\ back' = Append(back, "OFF")
       \/ /\ Head(wire) = "ON" /\ peer # "NO"
          /\ peer' = (IF peer = "WANTNO" THEN "NO" ELSE "YES") /\ UNCHANGED back
       \/ /\ Head(wire) = "OFF" /\ peer # "YES"
          /\ peer' = "NO" /\ UNCHANGED back
    /\ UNCHANGED <<opt, wish, sentReqs, online, alive, sockW, commands, offers,
                   asked, hasty, lost, kept>>

PeerOffers ==
    /\ offers < MaxOffers /\ offers' = offers + 1
    /\ \/ peer = "NO" /\ peer' = "WANTYES" /\ back' = Append(back, "ON")
       \/ /\ peer = "YES" /\ PeerQuits
          /\ peer' = "WANTNO" /\ back' = Append(back, "OFF")
    /\ UNCHANGED <<opt, wish, sentReqs, online, alive, sockW, wire, commands,
                   asked, hasty, lost, kept>>

-----------------------------------------------------------------------------
\* telOptReset() and stepEnterOnline() of a call; a dial with a port sets
\* sentReqs, and the requirement is then the one of the last call.
Init ==
    /\ wish \in Wishes /\ state = FALSE
    /\ \/ /\ req = wish /\ sentReqs = TRUE /\ sockW = request(wish, FALSE)
          /\ pending = (sockW # <<>>) /\ asked = TRUE
       \/ /\ req \in Wishes /\ sentReqs = TRUE /\ sockW = <<>>
          /\ pending = FALSE /\ asked = FALSE
    /\ online = TRUE /\ alive = TRUE /\ wire = <<>> /\ back = <<>> /\ peer = "NO"
    /\ commands = 0 /\ offers = 0 /\ lost = FALSE /\ hasty = FALSE
    /\ kept = FALSE

Next ==
    \/ Returns \/ Receives \/ Sends \/ Escapes
    \/ \E w \in Wishes, again \in BOOLEAN : AtSets(w, again)
    \/ PeerAnswers \/ PeerOffers

Spec == Init /\ [][Next]_vars

\* The variables keep to their types.
TypeOK ==
    /\ wish \in Wishes /\ req \in Req /\ state \in BOOLEAN /\ pending \in BOOLEAN
    /\ sentReqs \in BOOLEAN /\ online \in BOOLEAN /\ alive \in BOOLEAN
    /\ sockW \in Seq(Command) /\ wire \in Seq(Command) /\ back \in Seq(Command)
    /\ peer \in {"NO", "YES", "WANTNO", "WANTYES"}
    /\ commands \in 0..MaxCommands /\ offers \in 0..MaxOffers
    /\ asked \in BOOLEAN /\ hasty \in BOOLEAN /\ lost \in BOOLEAN /\ kept \in BOOLEAN

(* What the host's loop and the network go on doing. *)
FairSpec == Spec /\ WF_vars(Receives) /\ WF_vars(Sends) /\ WF_vars(PeerAnswers)

-----------------------------------------------------------------------------
(* Properties.  An escape may discard commands (`lost'), and then little can
   be said; nor can it when the modem keeps an option on that the peer has
   turned off (`kept'), for BETTER is documented to be given up ("enable the opt
   or disable unwillingly", m2k_private.h) and is not. *)

InFlight == sockW \o wire \o back
Quiet == alive /\ InFlight = <<>> /\ ~lost /\ ~kept

\* When nothing is in flight, modem and peer agree on the option, whatever the
\* settings, the offers and refusals that cross a request and the escapes in
\* between.
Agreement == Quiet => (state <=> peer = "YES")

\* What m2k_private.h says of TOR_BETTER, "enable the opt or disable unwillingly":
\* when all is said and the peer will not have the option on, it is off here too.
BetterGivesIn ==
    alive /\ ~lost /\ InFlight = <<>> /\ req = "BETTER" /\ peer = "NO" => ~state

\* A pending request has an answer coming: the request, or the answer, is in
\* flight.  Else the next offer of the peer would be taken for that answer.
PendingHasAnswer == alive /\ ~lost /\ ~kept /\ pending => InFlight # <<>>

\* A requirement the modem has put to the peer is met in the end, or the modem
\* has hung up, when nothing else than that requirement is left to settle.
MustOrHangUp ==
    Quiet /\ asked /\ online => (req = "MUST" => state) /\ (req = "MUSTNOT" => ~state)

\* The negotiation comes to an end: "don't response because cmd is the response of
\* my request" (telopt.c:296), so that no answer is answered for ever.  The exception
\* is a setting that renegotiates before a request has been answered.  Two requests
\* share one `pending', or the answer contradicts the new requirement: either way an
\* answer is answered, and a peer that refuses is asked again and again.  An option
\* that the modem keeps on may be asked for again and again too.
Settles == <>(hasty \/ kept) \/ <>[](InFlight = <<>> \/ ~online \/ ~alive)
=============================================================================
