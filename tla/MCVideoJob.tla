----------------------------- MODULE MCVideoJob -----------------------------
(* Video jobs, a call of Kling and a person's devices on a small instance.  *)
EXTENDS VideoJob

CONSTANTS Early, Laptop, Phone   \* a job, a browser, an endpoint

Quiet(j) == request[j] = "none"
NoJobs == \A j \in Jobs : Quiet(j)
NoCall == \A k \in KlingCalls : client[k] = "idle"
NoDevices == ~stored /\ alive = Endpoints /\ \A b \in Browsers : push[b] = Idle
OneDevice == /\ alive = Endpoints /\ ToSet(subs) \subseteq {Phone}
             /\ \A b \in Browsers : push[b].pc \in {"idle", "save"} /\ push[b].endpoint \in {"", Phone}

(* Bound of the run: a behaviour has a job alone, with a caption and a     *)
(* crash; or two jobs; or a call of Kling; or two browsers; or a job and a *)
(* browser, or two jobs and a device, which act once a job is about to     *)
(* notify them, for it ignores them before.  Of two jobs, which are alike, *)
(* the early one comes first.                                              *)
Alone == \A j \in Jobs \ {Early} : Quiet(j)
Ordered == Quiet(Early) => NoJobs
Plain == caption = {} /\ ~crashed
Notifying == \E j \in Jobs : /\ worker[j] \in {"notify", "sending", "ended"}
                          /\ link[j] = "remote" /\ request[j] = "committed"
OneConcern ==
  \/ NoCall /\ NoDevices /\ Ordered /\ (Alone \/ Plain)
  \/ NoCall /\ NoJobs /\ installed /\ ~crashed /\ alive = Endpoints
  \/ NoCall /\ Ordered /\ Plain /\ fault = {} /\ push[Laptop] = Idle /\ Notifying
       /\ (Alone \/ OneDevice)
  \/ NoJobs /\ NoDevices
=============================================================================
