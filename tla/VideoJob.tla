------------------------------ MODULE VideoJob ------------------------------
(***************************************************************************)
(* A video from POST /api/generate (routers/generate.py) to the end of its *)
(* background task (services/video_gen.py): the request charges, writes a  *)
(* record in Redis (services/generations_service.py), starts the task and  *)
(* only then commits the charge; the task makes the video at kie.ai, gives *)
(* it a caption at Cloudinary (services/video_overlay.py), updates the     *)
(* record and notifies the person's devices, or refunds.  The task lives   *)
(* in the memory of one process; nothing resumes it after a crash.  The    *)
(* jobs are one person's and cost more than nothing.                       *)
(***************************************************************************)
EXTENDS RemoteTask, Push

CONSTANTS
  Jobs,
  MaxHistory   \* _MAX_HISTORY

ASSUME VideoJobAssumption ==
  /\ Senders = Jobs
  /\ Clients = Jobs \cup KlingCalls /\ Jobs \cap KlingCalls = {}
  /\ MaxHistory \in Nat \ {0}

VARIABLES
  installed,  \* app.services.chat_service can be imported; it is not in the repository
  request,    \* the HTTP request of a job
  worker,     \* the background task of a job
  caption,    \* jobs whose storyboard asks for a text overlay
  record,     \* generation:{id}
  history,    \* user:generations:{uid}, newest first
  refunded,   \* jobs whose refund is in the ledger
  files,      \* UPLOAD_DIR: "raw", "captioned" and "thumb" files, by job
  assets,     \* jobs whose upload Cloudinary still keeps
  link,       \* the URL the task has come to: "" or the file or provider's link
  fault,      \* history: jobs that met a failure which no code answers
  crashed     \* the process has died once (bound: it does so once)

jobVars == <<installed, request, worker, caption, record, history, refunded, files, assets,
             link, fault, crashed>>
vars == <<remoteVars, pushVars, jobVars>>

Absent == [status |-> "absent", url |-> "", thumb |-> FALSE]
Queued == [status |-> "queued", url |-> "", thumb |-> FALSE]

Init ==
  /\ RemoteInit /\ PushInit
  /\ installed \in BOOLEAN
  /\ request = [j \in Jobs |-> "none"]
  /\ worker = [j \in Jobs |-> "none"]
  /\ record = [j \in Jobs |-> Absent]
  /\ history = <<>>
  /\ refunded = {} /\ files = {} /\ assets = {} /\ fault = {} /\ caption = {}
  /\ link = [j \in Jobs |-> ""]
  /\ crashed = FALSE

To(j, pc) == worker' = [worker EXCEPT ![j] = pc]
Answer(j, pc) == request' = [request EXCEPT ![j] = pc]
Worker == <<installed, request, history, crashed>>   \* what no task changes
Outside == <<remoteVars, pushVars>>
Open == {j \in Jobs : request[j] \in {"charged", "saved", "listed", "queued"}}
Alive == {j \in Jobs : worker[j] \notin {"none", "ended", "dead"}}

-----------------------------------------------------------------------------
(* The request.  Charging locks the wallet's row until the session ends,   *)
(* so the next request of the person waits here.  Without kie the charge   *)
(* is cancelled and the 503 rolls both back.                               *)
Charge(j) ==
  /\ request[j] = "none" /\ Open = {}
  /\ \E pc \in {"charged", "refused"} : Answer(j, pc)
  /\ UNCHANGED <<Outside, installed, worker, caption, record, history, refunded, files, assets,
                 link, fault, crashed>>

SaveRecord(j) ==
  /\ request[j] = "charged"
  /\ record' = [record EXCEPT ![j] = Queued]
  /\ Answer(j, "saved")
  /\ UNCHANGED <<Outside, installed, worker, caption, history, refunded, files, assets, link,
                 fault, crashed>>

(* lpush *)
ListRecord(j) ==
  /\ request[j] = "saved"
  /\ history' = <<j>> \o history
  /\ Answer(j, "listed")
  /\ UNCHANGED <<Outside, installed, worker, caption, record, refunded, files, assets, link,
                 fault, crashed>>

(* ltrim, and the task is created *)
Schedule(j) ==
  /\ request[j] = "listed"
  /\ history' = SubSeq(history, 1, IF Len(history) > MaxHistory THEN MaxHistory ELSE Len(history))
  /\ Answer(j, "queued")
  /\ To(j, "start")
  /\ UNCHANGED <<Outside, installed, caption, record, refunded, files, assets, link, fault, crashed>>

Commit(j) ==
  /\ request[j] = "queued"
  /\ Answer(j, "committed")
  /\ UNCHANGED <<Outside, installed, worker, caption, record, history, refunded, files, assets,
                 link, fault, crashed>>

(* Redis or the database fails: the charge is rolled back, the record and  *)
(* the task, if they exist by then, are not.                               *)
RollBack(j) ==
  /\ j \in Open
  /\ Answer(j, "rolledback")
  /\ UNCHANGED <<Outside, installed, worker, caption, record, history, refunded, files, assets,
                 link, fault, crashed>>

-----------------------------------------------------------------------------
(* The task *)

(* The imports stand before the try block.  A photo that is animated has   *)
(* no caption, a storyboard may have one.                                  *)
Begin(j) ==
  /\ worker[j] = "start"
  /\ To(j, IF installed THEN "render" ELSE "dead")
  /\ client' = IF installed THEN [client EXCEPT ![j] = "create"] ELSE client
  /\ fault' = IF installed THEN fault ELSE fault \cup {j}
  /\ caption' \in {caption, caption \cup {j}}
  /\ UNCHANGED <<Worker, task, left, pushVars, record, refunded, files, assets, link>>

(* One step of _submit_task, _poll_task or _download_video *)
Render(j) ==
  /\ worker[j] = "render" /\ client[j] \notin {"got", "linked", "failed"}
  /\ Advance(j)
  /\ UNCHANGED <<pushVars, jobVars>>

MutantLinkAsFile(j) ==
  /\ worker[j] = "render" /\ client[j] \in {"got", "linked"}
  /\ files' = IF client[j] = "got" THEN files \cup {<<j, "raw">>} ELSE files
  /\ link' = [link EXCEPT ![j] = "raw"]
  /\ To(j, IF j \in caption THEN "upload" ELSE "thumb")
  /\ UNCHANGED <<Worker, Outside, caption, record, refunded, assets, fault>>

Rendered(j) ==
  /\ worker[j] = "render" /\ client[j] \in {"got", "linked"}
  /\ files' = IF client[j] = "got" THEN files \cup {<<j, "raw">>} ELSE files
  /\ link' = [link EXCEPT ![j] = IF client[j] = "got" THEN "raw" ELSE "remote"]
  /\ To(j, IF client[j] # "got" THEN "doneRead" ELSE IF j \in caption THEN "upload" ELSE "thumb")
  /\ UNCHANGED <<Worker, Outside, caption, record, refunded, assets, fault>>

NotRendered(j) ==
  /\ worker[j] = "render" /\ client[j] = "failed"
  /\ To(j, "refund")
  /\ UNCHANGED <<Worker, Outside, caption, record, refunded, files, assets, link, fault>>

(* apply_text_overlay.  Not configured, or the upload is refused: the      *)
(* original is delivered.  An upload whose answer is lost stays there.     *)
Upload(j) ==
  /\ worker[j] = "upload"
  /\ \/ assets' = assets \cup {j} /\ To(j, "bake") /\ fault' = fault
     \/ assets' = assets /\ To(j, "thumb") /\ fault' = fault
     \/ assets' = assets \cup {j} /\ To(j, "thumb") /\ fault' = fault \cup {j}
  /\ UNCHANGED <<Worker, Outside, caption, record, refunded, files, link>>

(* The captioned video is in the answer and is downloaded, or the answer   *)
(* lacks it; either way the asset is deleted.                              *)
Bake(j) ==
  /\ worker[j] = "bake"
  /\ \E kind \in {"captioned", "raw"} :
       /\ files' = files \cup {<<j, kind>>}
       /\ link' = [link EXCEPT ![j] = kind]
  /\ assets' = assets \ {j}
  /\ To(j, "thumb")
  /\ UNCHANGED <<Worker, Outside, caption, record, refunded, fault>>

(* The download raises: the except clause does not delete; or deleting     *)
(* fails, which is only logged.                                            *)
BakeFails(j) ==
  /\ worker[j] = "bake"
  /\ \/ UNCHANGED <<files, link>>
     \/ /\ files' = files \cup {<<j, "captioned">>}
        /\ link' = [link EXCEPT ![j] = "captioned"]
  /\ fault' = fault \cup {j}
  /\ To(j, "thumb")
  /\ UNCHANGED <<Worker, Outside, caption, record, refunded, assets>>

Thumbnail(j) ==
  /\ worker[j] = "thumb"
  /\ files' \in {files, files \cup {<<j, "thumb">>}}
  /\ To(j, "doneRead")
  /\ UNCHANGED <<Worker, Outside, caption, record, refunded, assets, link, fault>>

(* get and save of the record, after a success and after a failure *)
ReadRecord(j) ==
  /\ worker[j] \in {"doneRead", "failRead"}
  /\ To(j, IF worker[j] = "doneRead"
           THEN IF record[j] = Absent THEN "notify" ELSE "doneWrite"
           ELSE IF record[j] = Absent THEN "ended" ELSE "failWrite")
  /\ UNCHANGED <<Worker, Outside, caption, record, refunded, files, assets, link, fault>>

SaveDone(j) ==
  /\ worker[j] = "doneWrite"
  /\ record' = [record EXCEPT ![j] = [status |-> "done", url |-> link[j],
                                      thumb |-> <<j, "thumb">> \in files]]
  /\ To(j, "notify")
  /\ UNCHANGED <<Worker, Outside, caption, refunded, files, assets, link, fault>>

SaveFailed(j) ==
  /\ worker[j] = "failWrite"
  /\ record' = [record EXCEPT ![j].status = "failed"]
  /\ To(j, "ended")
  /\ UNCHANGED <<Worker, Outside, caption, refunded, files, assets, link, fault>>

MutantRefundForgotten(j) ==
  /\ worker[j] = "refund"
  /\ To(j, "failRead")
  /\ UNCHANGED <<Worker, Outside, caption, record, refunded, files, assets, link, fault>>

(* wallet.cancel in a session of its own, whose UPDATE of the wallet's row *)
(* waits for every request that holds the row.  It does not ask whether    *)
(* the charge it undoes was committed.                                     *)
Refund(j) ==
  /\ worker[j] = "refund" /\ Open = {}
  /\ refunded' = refunded \cup {j}
  /\ To(j, "failRead")
  /\ UNCHANGED <<Worker, Outside, caption, record, files, assets, link, fault>>

(* The exception is logged; the record will say "failed" all the same      *)
RefundFails(j) ==
  /\ worker[j] = "refund"
  /\ fault' = fault \cup {j}
  /\ To(j, "failRead")
  /\ UNCHANGED <<Worker, Outside, caption, record, refunded, files, assets, link>>

(* A Redis command raises, which nothing in the task catches *)
RedisFails(j) ==
  /\ worker[j] \in {"doneRead", "doneWrite", "failRead", "failWrite"}
  /\ fault' = fault \cup {j}
  /\ To(j, "dead")
  /\ UNCHANGED <<Worker, Outside, caption, record, refunded, files, assets, link>>

(* send_push_to_user: the list is read, and the job is over once the       *)
(* operation of Push that this starts is.  Push is not configured, or the  *)
(* read fails, which is only logged: nothing is started.                   *)
Notify(j) ==
  /\ worker[j] = "notify"
  /\ ReadList(j) \/ UNCHANGED pushVars
  /\ To(j, "sending")
  /\ UNCHANGED <<Worker, remoteVars, caption, record, refunded, files, assets, link, fault>>

Sending(j) == worker[j] = "sending" /\ PushStep(j) /\ UNCHANGED <<remoteVars, jobVars>>

Sent(j) ==
  /\ worker[j] = "sending" /\ push[j] = Idle
  /\ To(j, "ended")
  /\ UNCHANGED <<Worker, Outside, caption, record, refunded, files, assets, link, fault>>

-----------------------------------------------------------------------------
(* The process dies with the requests and tasks in it *)
Crash ==
  /\ ~crashed /\ crashed' = TRUE
  /\ request' = [j \in Jobs |-> IF j \in Open THEN "rolledback" ELSE request[j]]
  /\ worker' = [j \in Jobs |-> IF j \in Alive THEN "dead" ELSE worker[j]]
  /\ fault' = fault \cup Alive
  /\ Die
  /\ UNCHANGED <<remoteVars, installed, caption, record, history, refunded, files, assets, link>>

(* The calls of Kling, which a picture's request makes, share nothing with *)
(* the jobs                                                                *)
Kling(k) == (Call(k) \/ Advance(k)) /\ UNCHANGED <<pushVars, jobVars>>

TaskStep(j) ==
  /\ ~Standing
  /\ \/ Begin(j) \/ Render(j) \/ Rendered(j) \/ NotRendered(j) \/ Upload(j) \/ Bake(j)
     \/ BakeFails(j) \/ Thumbnail(j) \/ ReadRecord(j) \/ SaveDone(j) \/ SaveFailed(j) \/ Refund(j)
     \/ RefundFails(j) \/ RedisFails(j) \/ Notify(j) \/ Sending(j) \/ Sent(j)

RequestStep(j) ==
  ~Standing /\ (SaveRecord(j) \/ ListRecord(j) \/ Schedule(j) \/ Commit(j) \/ RollBack(j))

(* The services outside: the providers work, and browsers and push         *)
(* services do as they please                                              *)
Outdoors ==
  \/ \E c \in Clients : Work(c) /\ UNCHANGED <<pushVars, jobVars>>
  \/ \E j \in Jobs : Answered(j) /\ UNCHANGED <<remoteVars, jobVars>>
  \/ \E e \in Endpoints : Forget(e) /\ UNCHANGED <<remoteVars, jobVars>>

Next ==
  \/ \E j \in Jobs : RequestStep(j) \/ TaskStep(j) \/ (~Standing /\ Charge(j))
  \/ \E k \in KlingCalls : ~Standing /\ Kling(k)
  \/ \E x \in Browsers, e \in Endpoints :
       (Subscribe(x, e) \/ Unsubscribe(x, e)) /\ UNCHANGED <<remoteVars, jobVars>>
  \/ \E x \in Browsers : PushStep(x) /\ UNCHANGED <<remoteVars, jobVars>>
  \/ Outdoors
  \/ Crash

Spec == Init /\ [][Next]_vars

(* The event loop runs every task and handler that can go on: what they    *)
(* await has a timeout (httpx, ffmpeg, the polling deadline).  webpush()   *)
(* has none and is not awaited, so nothing says that it returns; nor do    *)
(* the providers have to finish, or anybody to ask or to crash.            *)
FairSpec ==
  Spec /\ \A j \in Jobs : WF_vars(TaskStep(j)) /\ WF_vars(RequestStep(j))

-----------------------------------------------------------------------------
(* Records, files and places in the code are of their kinds, and so are    *)
(* the calls and the subscriptions.                                        *)
TypeOK ==
  /\ RemoteTypeOK /\ PushTypeOK
  /\ installed \in BOOLEAN /\ crashed \in BOOLEAN
  /\ request \in [Jobs -> {"none", "charged", "refused", "saved", "listed", "queued",
                           "committed", "rolledback"}]
  /\ worker \in [Jobs -> {"none", "start", "render", "upload", "bake", "thumb", "doneRead",
                          "doneWrite", "refund", "failRead", "failWrite", "notify", "sending",
                          "ended", "dead"}]
  /\ record \in [Jobs -> [status : {"absent", "queued", "done", "failed"},
                          url : {"", "raw", "captioned", "remote"}, thumb : BOOLEAN]]
  /\ link \in [Jobs -> {"", "raw", "captioned", "remote"}]
  /\ history \in Seq(Jobs)
  /\ files \subseteq Jobs \X {"raw", "captioned", "thumb"}
  /\ caption \subseteq Jobs /\ refunded \subseteq Jobs /\ assets \subseteq Jobs /\ fault \subseteq Jobs

(* "On success DONE, on failure FAILED + refund" (run_video_job): a paid   *)
(* job has delivered or refunded, and never both, before it notifies       *)
(* anybody (so also if it never returns from that), unless it met one of   *)
(* the failures nothing in the code answers: the import, Redis or the      *)
(* refund failing, the end of the process.                                 *)
PaidIsSettled ==
  \A j \in Jobs :
    /\ request[j] = "committed" /\ worker[j] \in {"notify", "sending", "ended", "dead"}
         /\ j \notin fault => (record[j].status = "done") # (j \in refunded)
    /\ record[j].status = "done" => j \notin refunded
    /\ record[j].status = "failed" /\ j \notin fault => j \in refunded

(* A refund that gives back a charge nobody will commit needs a request    *)
(* that was rolled back after its task had begun; the row lock keeps it    *)
(* from overtaking a request that can still commit.                        *)
RefundFollowsCharge ==
  \A j \in refunded : request[j] \in {"committed", "rolledback"}

(* A record that says "done" with a link of ours names a file that exists, *)
(* with the caption and the preview it was given; the provider's link is   *)
(* handed out only when the download failed.                               *)
LinkIsServed ==
  \A j \in Jobs : record[j].status = "done" =>
    /\ record[j].url \in {"raw", "captioned"} => <<j, record[j].url>> \in files
    /\ record[j].thumb => <<j, "thumb">> \in files /\ record[j].url # "remote"
    /\ record[j].url = "remote" => client[j] = "linked"
    /\ <<j, "captioned">> \in files => record[j].url = "captioned"

(* The person's list names only generations that can be read, newest       *)
(* first, and is trimmed to its limit by the request that outgrew it.      *)
HistoryReadable ==
  /\ \A i \in DOMAIN history : record[history[i]] # Absent
  /\ Len(history) > MaxHistory => \E j \in Jobs : request[j] \in {"listed", "rolledback"}

(* "We keep only local copy" (video_overlay.py): a job that is over leaves *)
(* no video at Cloudinary unless an answer was lost or the process died.   *)
NothingLeftOutside ==
  \A j \in assets : worker[j] \in {"ended", "dead"} => j \in fault

(* Every request and every task comes to an end although the provider may  *)
(* never answer, unless a push service never answers: then the process     *)
(* stands still.  A task that got lost, for one of the failures nothing in *)
(* the code answers, has come to no end.                                   *)
Lost(j) == worker[j] = "dead" /\ j \in fault
EveryJobEnds ==
  \/ <>[]Standing
  \/ \A j \in Jobs :
       (request[j] # "none") ~> (worker[j] \in {"none", "ended"} \/ Lost(j)) /\ j \notin Open

(* The money of a video: whoever paid has it or the money, never both and  *)
(* never money nobody paid, unless a fault nothing answers came between.   *)
MoneySettled == PaidIsSettled /\ RefundFollowsCharge

(* What a finished job leaves behind can be followed: its link, its        *)
(* preview and its place in the list lead somewhere, and nothing of it     *)
(* stays with the service that laid the caption over it.                   *)
NothingDangles == TypeOK /\ LinkIsServed /\ HistoryReadable /\ NothingLeftOutside
=============================================================================
