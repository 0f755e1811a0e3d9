------------------------------ MODULE CurlFuse ------------------------------
(***************************************************************************)
(* The example program curl_fuse: a client spawns jobs that ask a master   *)
(* to read, the master hands each read to one of its idle workers, and     *)
(* CTRL+C ends the master, whose links end the others.  A message that has *)
(* no handler stays in the mailbox, where the next one that has is taken.  *)
(* A download that fails is repeated, which changes nothing.               *)
(***************************************************************************)
EXTENDS Naturals, Sequences, SequencesExt

CONSTANTS Fetchers,  \* the curl_workers
          ClientJobs \* the client_jobs the client may spawn

VARIABLES idle, busy,  \* m_idle_worker, m_busy_worker
          full,        \* the behavior that only knows finished is on top
          masterBox,   \* mailbox of the master: <<"read", job>>, <<"finished", fetcher>>, <<"exit">>
          fetcherBox,  \* fetcherBox[w]: the jobs forwarded to w
          exits,       \* actors that have an exit_msg in their mailbox
          ended,       \* actors that ended
          jobState,    \* jobState[j]: "new", "asked", "replied", "done"
          shutdown_flag

curlVars == <<idle, busy, full, masterBox, fetcherBox, exits, ended, jobState, shutdown_flag>>

Master == "master"
Client == "client"

CurlInit ==
  /\ idle = SetToSeq(Fetchers) /\ busy = <<>> /\ full = FALSE /\ masterBox = <<>>
  /\ fetcherBox = [w \in Fetchers |-> <<>>] /\ exits = {} /\ ended = {}
  /\ jobState = [j \in ClientJobs |-> "new"] /\ shutdown_flag = FALSE

ToMaster(m) == IF Master \in ended THEN masterBox ELSE Append(masterBox, m)

-----------------------------------------------------------------------------
(* The client's next handler: a new job is linked and asks the master.     *)
next(j) ==
  /\ Client \notin ended /\ jobState[j] = "new"
  /\ jobState' = [jobState EXCEPT ![j] = "asked"] /\ masterBox' = ToMaster(<<"read", j>>)
  /\ UNCHANGED <<idle, busy, full, fetcherBox, exits, ended, shutdown_flag>>

Receives(m) ==
  LET known == {i \in DOMAIN masterBox : full => masterBox[i][1] # "read"}
  IN /\ Master \notin ended
     /\ \E i \in known : /\ \A k \in known : i <= k
                         /\ masterBox[i] = m /\ masterBox' = RemoveAt(masterBox, i)

(* forward_to the first idle worker; with the last one, await finished.    *)
read(j) ==
  /\ Receives(<<"read", j>>)
  /\ idle' = Tail(idle) /\ busy' = Append(busy, Head(idle))
  /\ fetcherBox' = [fetcherBox EXCEPT ![Head(idle)] = Append(@, j)]
  /\ full' = (idle' = <<>>)
  /\ UNCHANGED <<exits, ended, jobState, shutdown_flag>>

(* A mutant of worker_finished: the worker that waits longest is released. *)
FinishedFirst(w) ==
  idle' = Append(idle, Head(busy)) /\ busy' = Tail(busy)

worker_finished(w) ==
  /\ idle' = Append(idle, w)
  /\ busy' = RemoveAt(busy, CHOOSE i \in DOMAIN busy : busy[i] = w)

finished(w) ==
  /\ Receives(<<"finished", w>>) /\ worker_finished(w) /\ full' = FALSE
  /\ UNCHANGED <<fetcherBox, exits, ended, jobState, shutdown_flag>>

(* curl_worker: a download that succeeds tells the master, then the job.   *)
download(w) ==
  /\ w \notin ended /\ fetcherBox[w] # <<>>
  /\ fetcherBox' = [fetcherBox EXCEPT ![w] = Tail(@)]
  /\ masterBox' = ToMaster(<<"finished", w>>)
  /\ jobState' = [jobState EXCEPT ![Head(fetcherBox[w])] = IF @ = "asked" THEN "replied" ELSE @]
  /\ UNCHANGED <<idle, busy, full, exits, ended, shutdown_flag>>

(* client_job: the reply ends the job with reason normal.                  *)
reply(j) ==
  /\ jobState[j] = "replied" /\ jobState' = [jobState EXCEPT ![j] = "done"]
  /\ UNCHANGED <<idle, busy, full, masterBox, fetcherBox, exits, ended, shutdown_flag>>

(* main: CTRL+C.                                                           *)
shut_down ==
  /\ ~shutdown_flag /\ shutdown_flag' = TRUE /\ masterBox' = ToMaster(<<"exit">>)
  /\ UNCHANGED <<idle, busy, full, fetcherBox, exits, ended, jobState>>

LinkedTo(a) == IF a = Master THEN Fetchers \cup {Client} ELSE {}

MasterExits ==
  /\ Receives(<<"exit">>) /\ ended' = ended \cup {Master} /\ exits' = exits \cup LinkedTo(Master)
  /\ UNCHANGED <<idle, busy, full, fetcherBox, jobState, shutdown_flag>>

(* A worker ends after its downloads, the client takes its jobs along.     *)
LinkedExits(a) ==
  /\ a \in exits \ ended /\ ended' = ended \cup {a}
  /\ a \in Fetchers => fetcherBox[a] = <<>>
  /\ jobState' = IF a # Client THEN jobState
                 ELSE [j \in ClientJobs |-> IF jobState[j] = "new" THEN "new" ELSE "done"]
  /\ UNCHANGED <<idle, busy, full, masterBox, fetcherBox, exits, shutdown_flag>>

CurlNext ==
  \/ \E j \in ClientJobs : next(j) \/ read(j) \/ reply(j)
  \/ \E w \in Fetchers : finished(w) \/ download(w)
  \/ shut_down \/ MasterExits
  \/ \E a \in Fetchers \cup {Client} : LinkedExits(a)
CurlSpec == CurlInit /\ [][CurlNext]_curlVars

-----------------------------------------------------------------------------
(* The master's lists partition the workers, a worker is idle exactly when *)
(* it has neither a job nor news for the master, so front() and the result *)
(* of find() are always there (curl_fuse.cpp:292, 306).                    *)
PoolExact == Master \notin ended =>
  \A w \in Fetchers :
    LET jobs == Len(fetcherBox[w])
        news == Len(SelectSeq(masterBox, LAMBDA m : m = <<"finished", w>>))
        times(q) == Len(SelectSeq(q, LAMBDA x : x = w))
    IN times(busy) = jobs + news /\ times(idle) = 1 - (jobs + news)

(* The master takes a read only while it has an idle worker                *)
(* (curl_fuse.cpp:315).                                                    *)
IdleWhenReading == ~full <=> idle # <<>>

(* A job that will not get a reply is ended with the client                *)
(* (curl_fuse.cpp:164, 290).                                               *)
JobNotStranded == \A j \in ClientJobs : jobState[j] = "asked" =>
  \/ \E i \in DOMAIN masterBox : Master \notin ended /\ masterBox[i] = <<"read", j>>
  \/ \E w \in Fetchers : \E i \in DOMAIN fetcherBox[w] : fetcherBox[w][i] = j
  \/ Client \in exits

(* The master never runs out of workers it believes to have, and no job    *)
(* waits for nothing (curl_fuse.cpp:164, 292, 306, 315).                   *)
ReadsServed == PoolExact /\ IdleWhenReading /\ JobNotStranded
=============================================================================
