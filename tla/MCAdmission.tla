----------------------------- MODULE MCAdmission ----------------------------
(* Admission on one table: uploads of two users, or a parent with two model    *)
(* calls. A behaviour submits the jobs of one of the two scenes.               *)
EXTENDS WorkerQueue, TLC

CONSTANTS upload1, upload2, parent, call1, call2, u1, u2, b1, w1, w2

VARIABLE scene

Uploads == {upload1, upload2}
Calls   == {call1, call2}

JobsOf == [uploads |-> Uploads, calls |-> {parent} \cup Calls]

MCJob == UNION {JobsOf[s] : s \in DOMAIN JobsOf}

Owner     == [j \in MCJob |-> IF j = upload2 THEN u2 ELSE u1]
QueueOf   == [j \in MCJob |-> IF j \in Uploads THEN "ingest"
                              ELSE IF j \in Calls THEN "model" ELSE "scientific"]
ProjectOf == [j \in MCJob |-> NoProject]
ScopeOf   == [j \in MCJob |-> j]
GroupOf   == [j \in MCJob |-> NoGroup]
BatchOf   == [j \in MCJob |-> IF j = upload1 THEN b1 ELSE NoBatch]
ParentOf  == [j \in MCJob |-> IF j \in Calls THEN parent ELSE NoJob]
\* The second slot runs uploads only.
SupportedBy == (w1 :> MCJob) @@ (w2 :> Uploads)

PausedIn == [uploads |-> {"ingest"}, calls |-> {"model"}]

AdmissionVars == <<vars, scene>>

AdmissionInit == Init /\ scene \in DOMAIN JobsOf

AdmissionNext ==
    /\ Next /\ UNCHANGED scene
    /\ \A j \in MCJob \ JobsOf[scene] : row'[j] = row[j]
    /\ paused' \subseteq PausedIn[scene]
    /\ scene = "calls" => fenced' = fenced /\ ctx'[w2] = ctx[w2] /\ w2 \notin stopping'

AdmissionSpec == AdmissionInit /\ [][AdmissionNext]_AdmissionVars
=============================================================================
