---------------------------- MODULE SessionStore ----------------------------
(***************************************************************************)
(* The ML sidecar (ml-sidecar/server.py, scorer.py, models/lstm_model.py,  *)
(* models/isolation_forest.py): Score calls run side by side on a thread   *)
(* pool, each reading, extending and writing back the feature sequence of  *)
(* its client's subnet in Redis before the two models are asked.           *)
(*                                                                         *)
(* The read and the write are two commands, so calls of one subnet may     *)
(* undo each other; the engine may have stopped waiting for any of them,   *)
(* and a write whose caller has given up may still reach the store.        *)
(* A feature vector is the request that carries it.  What the networks     *)
(* compute is not modelled: a model that is there gives any of Outputs.    *)
(* Scores are percentages.                                                 *)
(***************************************************************************)
EXTENDS Integers, FiniteSets, SequencesExt

CONSTANTS Requests,        \* Score calls
          IPs,             \* client addresses, tuples of address parts
          MaxSeqLen,       \* MAX_SEQ_LEN
          Outputs,         \* what a model may answer
          BlockThreshold,  \* the engine's config.ScoreBlockThreshold
          NoIP

ASSUME SessionAssumption == /\ MaxSeqLen \in Nat \ {0}
                            /\ Outputs \subseteq 0 .. 100
                            /\ BlockThreshold \in Nat
                            /\ NoIP \notin IPs

VARIABLES stage,      \* stage[r]: where Scorer.score is
          ip,         \* ip[r]: client of r
          copy,       \* copy[r]: the sequence r has read
          iso,        \* iso[r]: answer of the isolation forest
          score,      \* score[r]: the combined answer, or NoScore
          sequences,  \* sequences[k]: value of seq:{k}; <<>> if there is none
          baseline,   \* the baseline model was loaded at start
          session,    \* the ONNX session was loaded at start
          earlier,    \* history: pushes that had ended when r's began
          disturbed,  \* history: r's push met another one, or the key was lost
          used        \* history: models that took part in the score of r

call == <<stage, ip, copy, iso, score>>
loaded == <<baseline, session>>
history == <<earlier, disturbed, used>>
vars == <<call, sequences, loaded, history>>

NoScore == -1

(* Mutant: an absent model counts as certain.                              *)
NeutralCertain == 100

(* The score of a model that is not available.                             *)
Neutral == 50

(* The subnet of an address: three of the four parts of IPv4, three groups *)
(* of IPv6; an address of fewer parts is its own subnet.                   *)
IpToSubnet(a) == IF Len(a) >= 3 THEN SubSeq(a, 1, 3) ELSE a

Subnets == {IpToSubnet(a) : a \in IPs}
Key(r) == IpToSubnet(ip[r])

InFlight(r) == stage[r] \in {"read", "pushed", "scored"}
Pushed(r) == stage[r] \in {"pushed", "scored", "done"}

Stages == {"new", "read", "late", "pushed", "scored", "done", "failed"}

TypeOK == /\ stage \in [Requests -> Stages]
          /\ ip \in [Requests -> IPs \cup {NoIP}]
          /\ copy \in [Requests -> Seq(Requests)]
          /\ iso \in [Requests -> 0 .. 100]
          /\ score \in [Requests -> 0 .. 100 \cup {NoScore}]
          /\ sequences \in [Subnets -> Seq(Requests)]
          /\ \A k \in Subnets : Len(sequences[k]) <= MaxSeqLen
          /\ baseline \in BOOLEAN /\ session \in BOOLEAN
          /\ earlier \in [Requests -> SUBSET Requests]
          /\ disturbed \in [Requests -> BOOLEAN]
          /\ used \in [Requests -> SUBSET {"iso", "lstm"}]

Init == /\ stage = [r \in Requests |-> "new"]
        /\ ip = [r \in Requests |-> NoIP]
        /\ copy = [r \in Requests |-> <<>>]
        /\ iso = [r \in Requests |-> 0]
        /\ score = [r \in Requests |-> NoScore]
        /\ sequences = [k \in Subnets |-> <<>>]
        /\ baseline \in BOOLEAN
        /\ session \in BOOLEAN
        /\ earlier = [r \in Requests |-> {}]
        /\ disturbed = [r \in Requests |-> FALSE]
        /\ used = [r \in Requests |-> {}]

-----------------------------------------------------------------------------
(* Scorer.score                                                            *)

(* push_feature_vector: GET.                                               *)
PushRead(r, a) ==
  /\ stage[r] = "new"
  /\ stage' = [stage EXCEPT ![r] = "read"]
  /\ ip' = [ip EXCEPT ![r] = a]
  /\ copy' = [copy EXCEPT ![r] = sequences[IpToSubnet(a)]]
  /\ earlier' = [earlier EXCEPT ![r] = {s \in Requests : Pushed(s)}]
  /\ UNCHANGED <<iso, score, sequences, loaded, disturbed, used>>

(* Mutant: the sequence is not trimmed.                                    *)
ExtendedUntrimmed(seq, r) == Append(seq, r)

(* Mutant: the newest vector is put in front.                              *)
ExtendedInFront(seq, r) == <<r>> \o SubSeq(seq, 1, IF Len(seq) < MaxSeqLen THEN Len(seq) ELSE MaxSeqLen - 1)

(* Mutant: the oldest vectors are kept.                                    *)
ExtendedKeepsOldest(seq, r) == IF Len(seq) < MaxSeqLen THEN Append(seq, r) ELSE seq

(* seq.append(...), then seq[-MAX_SEQ_LEN:].                               *)
Extended(seq, r) ==
  LET s == Append(seq, r)
  IN  SubSeq(s, IF Len(s) > MaxSeqLen THEN Len(s) - MaxSeqLen + 1 ELSE 1, Len(s))

(* SETEX.  Calls of the subnet that have read and not written will undo    *)
(* this push, and so will a write of theirs that is still on its way.      *)
PushWrite(r) ==
  /\ stage[r] = "read"
  /\ stage' = [stage EXCEPT ![r] = "pushed"]
  /\ sequences' = [sequences EXCEPT ![Key(r)] = Extended(copy[r], r)]
  /\ copy' = [copy EXCEPT ![r] = <<>>]
  /\ disturbed' = [disturbed EXCEPT ![r] =
       \E s \in Requests \ {r} : stage[s] \in {"read", "late"} /\ Key(s) = Key(r)]
  /\ UNCHANGED <<ip, iso, score, loaded, earlier, used>>

(* IsolationForestModel.score: the client's model, else the baseline, else *)
(* the neutral score.  Whether a readable model is stored for the client   *)
(* is up to the retraining job, its TTL and eviction.                      *)
IsoScore(r) ==
  /\ stage[r] = "pushed"
  /\ stage' = [stage EXCEPT ![r] = "scored"]
  /\ \/ /\ \E out \in Outputs : iso' = [iso EXCEPT ![r] = out]
        /\ used' = [used EXCEPT ![r] = @ \cup {"iso"}]
     \/ /\ ~baseline
        /\ iso' = [iso EXCEPT ![r] = Neutral]
        /\ UNCHANGED used
  /\ UNCHANGED <<ip, copy, score, sequences, loaded, earlier, disturbed>>

(* _ISO_WEIGHT * iso_score + _LSTM_WEIGHT * lstm_score.                    *)
Combined(i, l) == (6 * i + 4 * l) \div 10

(* LSTMModel.score on the sequence stored now; a failed inference is       *)
(* neutral too.  copy[r] keeps what the network was given.                 *)
LstmScore(r) ==
  /\ stage[r] = "scored"
  /\ stage' = [stage EXCEPT ![r] = "done"]
  /\ \/ /\ session /\ sequences[Key(r)] # <<>>
        /\ copy' = [copy EXCEPT ![r] = sequences[Key(r)]]
        /\ \E out \in Outputs : score' = [score EXCEPT ![r] = Combined(iso[r], out)]
        /\ used' = [used EXCEPT ![r] = @ \cup {"lstm"}]
     \/ /\ score' = [score EXCEPT ![r] = Combined(iso[r], Neutral)]
        /\ UNCHANGED <<copy, used>>
  /\ iso' = [iso EXCEPT ![r] = 0]
  /\ UNCHANGED <<ip, sequences, loaded, earlier, disturbed>>

(* A Redis command raises: the call ends without a score.  A SETEX that    *)
(* was sent is out of the sidecar's hands then, and may still be applied.  *)
CallFails(r) ==
  /\ InFlight(r)
  /\ \/ /\ stage[r] = "read"
        /\ stage' = [stage EXCEPT ![r] = "late"]
        /\ UNCHANGED copy
     \/ /\ stage' = [stage EXCEPT ![r] = "failed"]
        /\ copy' = [copy EXCEPT ![r] = <<>>]
  /\ iso' = [iso EXCEPT ![r] = 0]
  /\ UNCHANGED <<ip, score, sequences, loaded, history>>

-----------------------------------------------------------------------------
(* The rest of the world                                                   *)

(* Redis applies a SETEX nobody waits for, over whatever is stored now.    *)
LateWrite(r) ==
  /\ stage[r] = "late"
  /\ stage' = [stage EXCEPT ![r] = "failed"]
  /\ sequences' = [sequences EXCEPT ![Key(r)] = Extended(copy[r], r)]
  /\ copy' = [copy EXCEPT ![r] = <<>>]
  /\ UNCHANGED <<ip, iso, score, loaded, history>>

(* The sequence of a subnet expires or is evicted.                         *)
Lose(k) ==
  /\ sequences' = [sequences EXCEPT ![k] = <<>>]
  /\ disturbed' = [r \in Requests |-> disturbed[r] \/ (InFlight(r) /\ Key(r) = k)]
  /\ UNCHANGED <<call, loaded, earlier, used>>

(* The sidecar process is restarted; the calls under way are gone (but for *)
(* a write already sent: CallFails, then Restart).                         *)
Restart == /\ stage' = [r \in Requests |-> IF InFlight(r) THEN "failed" ELSE stage[r]]
           /\ copy' = [r \in Requests |-> IF InFlight(r) THEN <<>> ELSE copy[r]]
           /\ iso' = [r \in Requests |-> 0]
           /\ baseline' \in BOOLEAN
           /\ session' \in BOOLEAN
           /\ UNCHANGED <<ip, score, sequences, history>>

Next == \/ \E r \in Requests, a \in IPs : PushRead(r, a)
        \/ \E r \in Requests : \/ PushWrite(r) \/ IsoScore(r)
                               \/ LstmScore(r) \/ CallFails(r) \/ LateWrite(r)
        \/ \E k \in Subnets : Lose(k)
        \/ Restart

Spec == Init /\ [][Next]_vars

-----------------------------------------------------------------------------
(* "a sliding window of the last 20 request feature vectors from the same  *)
(* /24 subnet": whatever calls run side by side, fail or are cut off, and  *)
(* however late their writes arrive, the stored sequence of a subnet has   *)
(* vectors of that subnet only, none of them twice, and a vector whose     *)
(* push had ended before another's began never comes after it.             *)
SequenceInOrder ==
  \A k \in Subnets :
    LET seq == sequences[k] IN
    /\ \A i \in DOMAIN seq : Key(seq[i]) = k
    /\ \A i, j \in DOMAIN seq : i < j =>
         seq[i] # seq[j] /\ seq[j] \notin earlier[seq[i]]

(* "so the LSTM score includes the current request": true of every call    *)
(* whose push no other call of the subnet overlapped, a write still on its *)
(* way included, unless MaxSeqLen later pushes have displaced it.  (With   *)
(* an overlap it is false: the later of two writes undoes the earlier.)    *)
ScoreIncludesOwn ==
  \A r \in Requests :
    stage[r] = "done" /\ copy[r] # <<>> /\ ~disturbed[r] =>
      \/ r \in ToSet(copy[r])
      \/ Len(copy[r]) = MaxSeqLen /\ \A s \in ToSet(copy[r]) : r \in earlier[s]

(* The score alone blocks nobody unless both models took part: with either *)
(* one neutral, the weights keep it at or below the engine's threshold.    *)
BlockNeedsBothModels ==
  \A r \in Requests : score[r] > BlockThreshold => used[r] = {"iso", "lstm"}
=============================================================================
