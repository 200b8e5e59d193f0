------------------------------- MODULE Verdict -------------------------------
(***************************************************************************)
(* What a caller may rely on: a verdict looks like one decision on the     *)
(* call, on one policy record and on one key record.  Both records were in *)
(* force at some moment between the call and its answer, the policy not    *)
(* later than the key; a token refused on its own is answered at once and  *)
(* from the call alone.                                                    *)
(***************************************************************************)
EXTENDS Naturals, Sequences

CONSTANTS
  Conns, Tokens, Sources,
  Times,         \* when the clock may start
  Zones,         \* everything that can be published
  Proceeds(_),   \* a call that is not refused on its own
  Refusal(_),    \* the report on one that is
  Report(_,_,_), \* of a call, the zone of its policy and that of its key
  None           \* no value

VARIABLES
  now,     \* Unix time
  zones,   \* what has been published, the last one in force
  status,  \* "new", "pending" or "answered"
  call,    \* token, source and time of the call
  since,   \* the zone in force when it was made
  verdict  \* the report on it

vars == <<now, zones, status, call, since, verdict>>

Init ==
  /\ now \in Times
  /\ \E zone \in Zones : zones = <<zone>>
  /\ status = [c \in Conns |-> "new"]
  /\ call = [c \in Conns |-> None]
  /\ since = [c \in Conns |-> 1]
  /\ verdict = [c \in Conns |-> None]

Present(c, token, source) ==
  LET this == [token |-> token, source |-> source, at |-> now]
  IN  /\ status[c] = "new"
      /\ call' = [call EXCEPT ![c] = this]
      /\ since' = [since EXCEPT ![c] = Len(zones)]
      /\ \/ /\ Proceeds(this)
            /\ status' = [status EXCEPT ![c] = "pending"]
            /\ UNCHANGED verdict
         \/ /\ ~Proceeds(this)
            /\ status' = [status EXCEPT ![c] = "answered"]
            /\ verdict' = [verdict EXCEPT ![c] = Refusal(this)]
      /\ UNCHANGED <<now, zones>>

Answer(c) ==
  /\ status[c] = "pending"
  /\ status' = [status EXCEPT ![c] = "answered"]
  /\ \E i \in since[c]..Len(zones) : \E j \in i..Len(zones) :
       verdict' = [verdict EXCEPT ![c] = Report(call[c], zones[i], zones[j])]
  /\ UNCHANGED <<now, zones, call, since>>

Publish ==
  /\ \E zone \in Zones : zones' = Append(zones, zone)
  /\ UNCHANGED <<now, status, call, since, verdict>>

Tick ==
  /\ now' = now + 1
  /\ UNCHANGED <<zones, status, call, since, verdict>>

Next ==
  \/ \E c \in Conns : \E token \in Tokens, source \in Sources : Present(c, token, source)
  \/ \E c \in Conns : Answer(c)
  \/ Publish
  \/ Tick

Spec == Init /\ [][Next]_vars
=============================================================================
