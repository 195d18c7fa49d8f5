------------------------------ MODULE Ssh2Setup ------------------------------
(***************************************************************************)
(* The set-up of an SSH-2 session (second part of do_ssh2_authconn): the   *)
(* main channel is opened and then one request at a time is sent and its   *)
(* answer waited for, WINDOW_ADJUST being the only other message that the  *)
(* wait understands.  Meanwhile the window may be resized, the standard    *)
(* input may end, and the listeners already accept connections.            *)
(***************************************************************************)
EXTENDS Integers, Sequences, FiniteSets

CONSTANTS
    Wanted,     \* sets of requests the configuration may ask for
    MaxForward, \* bound of the model: remote port forwardings
    MaxWindow,  \* bound of the model: window adjustments
    MaxAccept   \* bound of the model: connections made to the listeners

VARIABLES
    step,       \* the request that awaits its answer, "start", "session" or "closed"
    ssh2state,  \* ssh->state: "before", "intermed", "session", "closed"
    wanted, fallback, \* configuration: requests, and whether there is a second command
    second,     \* ssh->fallback_cmd
    forwards,   \* remote forwardings requested so far
    listens,    \* the local listeners are open
    on,         \* X11_fwd_enabled and agentfwd_enabled
    remwin,     \* window of the main channel
    toSetup, reqs, \* answers and requests in flight
    allowed,    \* requests the server granted
    credit,     \* window adjustments the server has sent
    opened,     \* connections accepted
    term, pty, resized, \* size of the terminal, size the server knows, size_needed
    eof         \* end of input: "no", "needed", "sent"

vars == <<step, ssh2state, wanted, fallback, second, forwards, listens, on, remwin, toSetup, reqs, allowed,
          credit, opened, term, pty, resized, eof>>
config == <<wanted, fallback>>
sizes == <<term, pty, resized>>

\* X11_fwd_enabled is not among the fields that ssh_init sets: it holds anything.
Init ==
    /\ step = "start" /\ ssh2state = "before" /\ wanted \in Wanted /\ fallback \in BOOLEAN
    /\ second = FALSE /\ forwards = 0 /\ listens = FALSE /\ on \in {{}, {"x11"}}
    /\ remwin = 0 /\ toSetup = <<>> /\ reqs = <<>> /\ allowed = {} /\ credit = 0 /\ opened = 0
    /\ term = 0 /\ pty = -1 /\ resized = FALSE /\ eof = "no"

-----------------------------------------------------------------------------
(* The conversation.                                                       *)

Order == <<"open", "x11", "remote", "agent", "pty", "command">>
Pos(r) == CHOOSE i \in DOMAIN Order : Order[i] = r
Asked(r) == r \in {"open", "command"} \union wanted
\* The request after r: the next one configured; "remote" as many times as there are.
After(r) ==
    IF r = "remote" /\ forwards < MaxForward THEN "remote"
    ELSE LET i == CHOOSE j \in (Pos(r) + 1)..Len(Order) :
                    Asked(Order[j]) /\ \A k \in (Pos(r) + 1)..(j - 1) : ~Asked(Order[k])
         IN Order[i]

\* Mutant: the size is taken as known while the pty request is under way.
IntermedNever(r) == IF r = "command" /\ "pty" \in wanted THEN "intermed" ELSE ssh2state
\* From the pty request on, ssh_size keeps a new size for later.
Intermed(r) == IF r = "pty" THEN "intermed" ELSE ssh2state

Request(r) ==
    /\ step' = r /\ reqs' = Append(reqs, r)
    /\ ssh2state' = Intermed(r)
    /\ forwards' = (IF r = "remote" THEN forwards + 1 ELSE forwards)
    /\ listens' = (listens \/ ("local" \in wanted /\ Pos(r) > Pos("x11")))
    /\ pty' = (IF r = "pty" THEN term ELSE pty)
    /\ UNCHANGED <<term, resized, eof>>

Begin ==
    /\ step = "start" /\ Request("open")
    /\ UNCHANGED <<config, second, on, remwin, toSetup, allowed, credit, opened>>

Replayed(e) == IF e = "needed" THEN "sent" ELSE e
\* SSH_STATE_SESSION: what was kept for later is sent now (ssh_size, ssh_special).
Session ==
    /\ step' = "session" /\ ssh2state' = "session"
    /\ pty' = (IF resized /\ "pty" \in wanted THEN term ELSE pty)
    /\ eof' = Replayed(eof)
    /\ UNCHANGED <<reqs, forwards, listens, term, resized>>

Close == step' = "closed" /\ ssh2state' = "closed" /\ UNCHANGED <<reqs, forwards, listens, sizes, eof>>

Enabled(r, p) == IF r \in {"x11", "agent"} /\ p = "success" THEN on \union {r} ELSE on

HasFallback == fallback /\ ~second

OnAnswer(p) ==
    CASE p \notin {"success", "failure"} -> Close /\ UNCHANGED <<on, second>>
      [] step = "open" /\ p = "failure" -> Close /\ UNCHANGED <<on, second>>
      [] step = "command" /\ p = "success" -> Session /\ UNCHANGED <<on, second>>
      [] step = "command" /\ p = "failure" ->
           /\ UNCHANGED on
           /\ IF HasFallback THEN second' = TRUE /\ Request("command")
              ELSE Close /\ UNCHANGED second
      [] OTHER -> on' = Enabled(step, p) /\ Request(After(step)) /\ UNCHANGED second

Adjusted == remwin + 1

Receive ==
    /\ step \notin {"start", "session", "closed"} /\ toSetup # <<>> /\ toSetup' = Tail(toSetup)
    /\ LET p == Head(toSetup) IN
       IF p = "adjust" /\ step # "open"
         THEN remwin' = Adjusted /\ UNCHANGED <<step, ssh2state, second, forwards, listens, on, reqs, sizes, eof>>
         ELSE OnAnswer(p) /\ UNCHANGED remwin
    /\ UNCHANGED <<config, allowed, credit, opened>>

-----------------------------------------------------------------------------
(* What happens meanwhile.                                                 *)

\* ssh_size.
Resize ==
    /\ step # "closed" /\ term < 2 /\ term' = term + 1
    /\ resized' = (resized \/ ssh2state = "intermed")
    /\ pty' = (IF ssh2state = "session" /\ "pty" \in wanted THEN term + 1 ELSE pty)
    /\ UNCHANGED <<step, ssh2state, config, second, forwards, listens, on, remwin, toSetup, reqs, allowed,
                   credit, opened, eof>>

\* ssh_special(TS_EOF).
EndOfInput ==
    /\ step # "closed" /\ eof = "no"
    /\ eof' = (IF ssh2state = "session" THEN "sent" ELSE "needed")
    /\ UNCHANGED <<step, ssh2state, config, second, forwards, listens, on, remwin, toSetup, reqs, allowed,
                   credit, opened, sizes>>

\* A listener accepts: new_sock_channel and ssh_send_port_open.
Accept ==
    /\ listens /\ step \notin {"session", "closed"} /\ opened < MaxAccept
    /\ opened' = opened + 1 /\ reqs' = Append(reqs, "channel")
    /\ UNCHANGED <<step, ssh2state, config, second, forwards, listens, on, remwin, toSetup, allowed, credit,
                   sizes, eof>>

SrvAnswer ==
    /\ reqs # <<>> /\ reqs' = Tail(reqs)
    /\ LET r == Head(reqs) IN
       IF r = "channel" THEN toSetup' = Append(toSetup, "confirmation") /\ UNCHANGED allowed
       ELSE \/ toSetup' = Append(toSetup, "success") /\ allowed' = allowed \union {r}
            \/ toSetup' = Append(toSetup, "failure") /\ UNCHANGED allowed
    /\ UNCHANGED <<step, ssh2state, config, second, forwards, listens, on, remwin, credit, opened, sizes, eof>>

SrvAdjust ==
    /\ "open" \in allowed /\ credit < MaxWindow /\ step \notin {"session", "closed"}
    /\ credit' = credit + 1 /\ toSetup' = Append(toSetup, "adjust")
    /\ UNCHANGED <<step, ssh2state, config, second, forwards, listens, on, remwin, reqs, allowed, opened, sizes, eof>>

Next == Begin \/ Receive \/ Resize \/ EndOfInput \/ Accept \/ SrvAnswer \/ SrvAdjust
Fairness == WF_vars(Receive) /\ WF_vars(SrvAnswer)

-----------------------------------------------------------------------------
InFlight(p) == Cardinality({i \in DOMAIN toSetup : toSetup[i] = p})

\* Every variable stays in its range.
TypeOK ==
    /\ step \in {"start", "session", "closed", "open", "x11", "remote", "agent", "pty", "command"}
    /\ ssh2state \in {"before", "intermed", "session", "closed"} /\ on \subseteq {"x11", "agent"}
    /\ remwin \in 0..MaxWindow /\ forwards \in 0..MaxForward /\ pty \in -1..2 /\ eof \in {"no", "needed", "sent"}

\* The set-up gives up only when the server refused what cannot be done without, or when a
\* forwarded connection was made too early: its confirmation is taken for the answer.
GivesUpForAReason ==
    step = "closed" => opened > 0 \/ "open" \notin allowed \/ ("command" \notin allowed /\ (fallback => second))

\* Window granted during the set-up is neither lost nor counted twice.
CreditKept == opened = 0 /\ step # "closed" => remwin + InFlight("adjust") = credit

\* Forwarding of the agent is on exactly when the server granted it; that of X11 is on if it
\* did (it may be on without: X11_fwd_enabled is not initialised).
OnWhenGranted ==
    step = "session" /\ opened = 0 =>
        /\ "agent" \in on <=> "agent" \in allowed
        /\ "x11" \in allowed => "x11" \in on

\* In a session the server knows the size of the window, however it was resized in between.
SizeReaches == step = "session" /\ "pty" \in wanted => pty = term

\* An end of input is never lost on the way to the session.
EofReaches == step = "session" => eof # "needed"

\* The set-up ends.
SetupEnds == (step \in {"open", "x11", "remote", "agent", "pty", "command"}) ~> (step \in {"session", "closed"})

\* X11 channels are opened only if the user asked for X11 forwarding and the server agreed.
X11OnlyIfGranted == step = "session" /\ opened = 0 => ("x11" \in on => "x11" \in allowed)
=============================================================================
