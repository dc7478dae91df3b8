----------------------------- MODULE RenderQueue ------------------------------
(***************************************************************************)
(* From the emulation to the screen in the GTK3 port: the pool and the ring *)
(* of back buffers (render_queue.c), the thread that renders them and its   *)
(* end (render_thread.c), and the renderer that ties them to the vice       *)
(* thread and the UI thread (opengl_renderer.c, opengl_renderer_macos.m).   *)
(*                                                                         *)
(* One window.  The locks of render_queue.c and render_thread.c cover       *)
(* straight line code only, so a section under them is part of an action.   *)
(* canvas_lock and render_lock are variables: render() waits for the second *)
(* with the first in hand.  The executor is the GThreadPool of one thread.  *)
(***************************************************************************)
EXTENDS Naturals, Sequences, FiniteSets

CONSTANTS
  MAX_BACKBUFFERS,
  MaxJobs          (* bound: jobs the user interface lets pile up *)

ASSUME BuffersAssumption == MAX_BACKBUFFERS \in Nat \ {0}
ASSUME MaxJobsAssumption == MaxJobs \in Nat

Buffers  == 1 .. MAX_BACKBUFFERS
NoBuffer == 0
RingSlots == 0 .. MAX_BACKBUFFERS - 1

VARIABLES
  backbuffer_stack,     (* the unused buffers, the top is last                *)
  render_queue,         (* the array of the ring                              *)
  render_queue_next,
  render_queue_length,
  drawn,                (* the buffer the vice thread draws into              *)
  uploaded,             (* the buffer the render thread uploads               *)
  freed,                (* render_queue_destroy() has run                     *)
  canvas_lock, render_lock,   (* owner                                        *)
  render_skip,
  executor,             (* jobs pushed and not yet taken                      *)
  thread,               (* "none", "up", "ending": is_shutdown_initiated      *)
  vpc, rpc, upc         (* places of the vice, the render and the UI thread   *)

ring    == <<render_queue, render_queue_next, render_queue_length>>
buffers == <<backbuffer_stack, ring, drawn, uploaded, freed>>
locks   == <<canvas_lock, render_lock>>
jobs    == <<executor, thread>>
vars    == <<buffers, locks, render_skip, jobs, vpc, rpc, upc>>

Jobs       == {"init", "render", "shutdown"}
VicePlaces == {"run", "draw", "gone"}
RenderPlaces ==
  { "idle",      \* waits for a job, or does not exist
    "once",      \* runs render_thread_init or render_thread_shutdown
    "render",    \* runs render_thread_render, before CANVAS_LOCK()
    "upload",    \* has canvas_lock, before RENDER_LOCK()
    "present" }  \* has render_lock, and canvas_lock no more
UiPlaces ==
  { "idle",
    "update",    \* the view is updated: render_skip is set, before RENDER_LOCK()
    "updating",  \* has render_lock
    "updated",   \* gave it up, before CANVAS_LOCK()
    "join",      \* before g_thread_pool_free()
    "joining",   \* g_thread_pool_free() waits for the job that runs
    "exit",      \* the render thread is joined: ui_exit()
    "stop",      \* in vice_thread_shutdown()
    "done" }     \* the canvas is destroyed

Init ==
  /\ backbuffer_stack = [i \in 1 .. MAX_BACKBUFFERS |-> i]
  /\ render_queue = [i \in RingSlots |-> NoBuffer]
  /\ render_queue_next = 0
  /\ render_queue_length = 0
  /\ drawn = NoBuffer
  /\ uploaded = NoBuffer
  /\ freed = FALSE
  /\ canvas_lock = "none"
  /\ render_lock = "none"
  /\ render_skip = FALSE
  /\ executor = <<>>
  /\ thread = "none"
  /\ vpc = "run"
  /\ rpc = "idle"
  /\ upc = "idle"

Top  == backbuffer_stack[Len(backbuffer_stack)]
Slot(i) == (render_queue_next + i) % MAX_BACKBUFFERS

(* The assertions of the two functions below are properties, not guards. *)
EnqueueForDisplay(b) ==
  /\ render_queue' = [render_queue EXCEPT ![Slot(render_queue_length)] = b]
  /\ render_queue_length' = render_queue_length + 1
  /\ UNCHANGED render_queue_next

ReturnToPool(b) == backbuffer_stack' = Append(backbuffer_stack, b)

DequeueForDisplay ==
  /\ render_queue_length > 0
  /\ render_queue_next' = Slot(1)
  /\ render_queue_length' = render_queue_length - 1
  /\ UNCHANGED render_queue

(* Mutation: a thread that is shutting down still takes jobs. *)
PushJob_Late(job) ==
  /\ executor' = Append(executor, job)
  /\ UNCHANGED thread

(* render_thread_push_job(): ignored once the shutdown has been initiated.   *)
PushJob(job) ==
  /\ executor' = IF thread = "up" THEN Append(executor, job) ELSE executor
  /\ UNCHANGED thread

-----------------------------------------------------------------------------
(* The vice thread, at the end of a frame.  Without an unused buffer the     *)
(* frame is not drawn.                                                       *)

(* Mutation: the buffer is only looked at, and removed when it is queued. *)
RefreshBegin_Peek ==
  /\ vpc = "run" /\ canvas_lock = "none"
  /\ backbuffer_stack # <<>>
  /\ drawn' = Top
  /\ vpc' = "draw"
  /\ UNCHANGED <<backbuffer_stack, ring, uploaded, freed, locks, render_skip,
                 jobs, rpc, upc>>

RefreshBegin ==
  /\ vpc = "run" /\ canvas_lock = "none"
  /\ backbuffer_stack # <<>>
  /\ drawn' = Top
  /\ backbuffer_stack' = SubSeq(backbuffer_stack, 1, Len(backbuffer_stack) - 1)
  /\ vpc' = "draw"
  /\ UNCHANGED <<ring, uploaded, freed, locks, render_skip, jobs, rpc, upc>>

(* Mutation: the job is pushed only when the ring was empty. *)
RefreshEnd_OneJob ==
  /\ vpc = "draw" /\ canvas_lock = "none"
  /\ vpc' = "run" /\ drawn' = NoBuffer
  /\ \/ /\ thread # "none"
        /\ EnqueueForDisplay(drawn)
        /\ IF render_queue_length = 0 THEN PushJob("render") ELSE UNCHANGED jobs
        /\ UNCHANGED backbuffer_stack
     \/ /\ thread = "none"
        /\ ReturnToPool(drawn)
        /\ UNCHANGED <<ring, jobs>>
  /\ UNCHANGED <<uploaded, freed, locks, render_skip, rpc, upc>>

RefreshEnd ==
  /\ vpc = "draw" /\ canvas_lock = "none"
  /\ vpc' = "run" /\ drawn' = NoBuffer
  /\ \/ /\ thread # "none"
        /\ EnqueueForDisplay(drawn)
        /\ PushJob("render")
        /\ UNCHANGED backbuffer_stack
     \/ /\ thread = "none"
        /\ ReturnToPool(drawn)
        /\ UNCHANGED <<ring, jobs>>
  /\ UNCHANGED <<uploaded, freed, locks, render_skip, rpc, upc>>

(* Told by vice_thread_shutdown(), between two frames. *)
ViceEnds ==
  /\ upc = "stop" /\ vpc = "run"
  /\ vpc' = "gone"
  /\ UNCHANGED <<buffers, locks, render_skip, jobs, rpc, upc>>

-----------------------------------------------------------------------------
(* The render thread. *)

TakeJob ==
  /\ rpc = "idle" /\ executor # <<>>
  /\ upc # "joining"
  /\ executor' = Tail(executor)
  /\ rpc' = IF Head(executor) = "render" THEN "render" ELSE "once"
  /\ UNCHANGED <<buffers, locks, render_skip, thread, vpc, upc>>

JobOnce ==
  /\ rpc = "once"
  /\ rpc' = "idle"
  /\ UNCHANGED <<buffers, locks, render_skip, jobs, vpc, upc>>

(* Mutation: with render_skip the buffer is not returned. *)
RenderSkipped_Kept ==
  /\ rpc = "render" /\ canvas_lock = "none"
  /\ render_skip
  /\ rpc' = "idle"
  /\ UNCHANGED backbuffer_stack
  /\ \/ DequeueForDisplay
     \/ render_queue_length = 0 /\ UNCHANGED ring
  /\ UNCHANGED <<drawn, uploaded, freed, locks, render_skip, jobs, vpc, upc>>

RenderSkipped ==
  /\ rpc = "render" /\ canvas_lock = "none"
  /\ render_skip
  /\ rpc' = "idle"
  /\ \/ DequeueForDisplay /\ ReturnToPool(render_queue[render_queue_next])
     \/ render_queue_length = 0 /\ UNCHANGED <<backbuffer_stack, ring>>
  /\ UNCHANGED <<drawn, uploaded, freed, locks, render_skip, jobs, vpc, upc>>

RenderBegin ==
  /\ rpc = "render" /\ canvas_lock = "none"
  /\ ~render_skip
  /\ rpc' = "upload" /\ canvas_lock' = "render"
  /\ \/ DequeueForDisplay /\ uploaded' = render_queue[render_queue_next]
     \/ render_queue_length = 0 /\ UNCHANGED <<ring, uploaded>>
  /\ UNCHANGED <<backbuffer_stack, drawn, freed, render_lock, render_skip, jobs, vpc, upc>>

RenderUpload ==
  /\ rpc = "upload" /\ render_lock = "none"
  /\ rpc' = "present" /\ render_lock' = "render" /\ canvas_lock' = "none"
  /\ IF uploaded # NoBuffer
       THEN ReturnToPool(uploaded) /\ uploaded' = NoBuffer
       ELSE UNCHANGED <<backbuffer_stack, uploaded>>
  /\ UNCHANGED <<ring, drawn, freed, render_skip, jobs, vpc, upc>>

RenderEnd ==
  /\ rpc = "present"
  /\ rpc' = "idle" /\ render_lock' = "none"
  /\ UNCHANGED <<buffers, canvas_lock, render_skip, jobs, vpc, upc>>

-----------------------------------------------------------------------------
(* The UI thread. *)

(* on_widget_realized(): the thread is created with its first job. *)
Realize ==
  /\ upc = "idle" /\ canvas_lock = "none"
  /\ thread = "none"
  /\ thread' = "up" /\ executor' = <<"init">>
  /\ UNCHANGED <<buffers, locks, render_skip, vpc, rpc, upc>>

(* The frame clock refreshes the screen of a machine that stands still; the  *)
(* clock also ticks while ui_exit() lets events come.                        *)
FrameClock ==
  /\ upc \in {"idle", "exit"} /\ canvas_lock = "none"
  /\ thread # "none"
  /\ Len(executor) < MaxJobs
  /\ PushJob("render")
  /\ UNCHANGED <<buffers, locks, render_skip, vpc, rpc, upc>>

(* The view of macOS changes its size or its screen: update, in three parts. *)
UpdateBegin ==
  /\ upc = "idle" /\ canvas_lock = "none"
  /\ thread # "none"
  /\ render_skip' = TRUE
  /\ upc' = "update"
  /\ UNCHANGED <<buffers, locks, jobs, vpc, rpc>>

UpdateView ==
  /\ upc = "update" /\ render_lock = "none"
  /\ upc' = "updating" /\ render_lock' = "ui"
  /\ UNCHANGED <<buffers, canvas_lock, render_skip, jobs, vpc, rpc>>

UpdateViewed ==
  /\ upc = "updating"
  /\ upc' = "updated" /\ render_lock' = "none"
  /\ UNCHANGED <<buffers, canvas_lock, render_skip, jobs, vpc, rpc>>

UpdateEnd ==
  /\ upc = "updated" /\ canvas_lock = "none"
  /\ upc' = "idle" /\ render_skip' = FALSE
  /\ UNCHANGED <<buffers, locks, jobs, vpc, rpc>>

(* main_exit(): render_thread_shutdown_and_join_all(), ui_exit(),            *)
(* vice_thread_shutdown(), machine_shutdown().  The vice thread emulates     *)
(* until the third of them.                                                  *)
InitiateShutdown ==
  /\ upc = "idle"
  /\ IF thread = "none"
       THEN upc' = "exit" /\ UNCHANGED jobs
       ELSE /\ upc' = "join" /\ thread' = "ending"
            /\ executor' = Append(executor, "shutdown")
  /\ UNCHANGED <<buffers, locks, render_skip, vpc, rpc>>

(* g_thread_pool_free(executor, immediate, wait): jobs not taken are dropped. *)
FreeExecutor ==
  /\ upc = "join"
  /\ upc' = "joining" /\ executor' = <<>>
  /\ UNCHANGED <<buffers, locks, render_skip, thread, vpc, rpc>>

Join ==
  /\ upc = "joining" /\ rpc = "idle"
  /\ upc' = "exit"
  /\ UNCHANGED <<buffers, locks, render_skip, jobs, vpc, rpc>>

(* Mutation: the frames that are left should still be shown. *)
UiExit_Drains ==
  /\ upc = "exit" /\ render_queue_length = 0
  /\ upc' = "stop"
  /\ UNCHANGED <<buffers, locks, render_skip, jobs, vpc, rpc>>

UiExit ==
  /\ upc = "exit"
  /\ upc' = "stop"
  /\ UNCHANGED <<buffers, locks, render_skip, jobs, vpc, rpc>>

(* Mutation: the canvas is destroyed without waiting for the vice thread. *)
DestroyContext_Early ==
  /\ upc = "stop" /\ canvas_lock = "none"
  /\ upc' = "done" /\ freed' = TRUE
  /\ backbuffer_stack' = <<>> /\ render_queue_length' = 0
  /\ UNCHANGED <<render_queue, render_queue_next, drawn, uploaded, locks,
                 render_skip, jobs, vpc, rpc>>

DestroyContext ==
  /\ upc = "stop" /\ vpc = "gone" /\ canvas_lock = "none"
  /\ upc' = "done" /\ freed' = TRUE
  /\ backbuffer_stack' = <<>> /\ render_queue_length' = 0
  /\ UNCHANGED <<render_queue, render_queue_next, drawn, uploaded, locks,
                 render_skip, jobs, vpc, rpc>>

-----------------------------------------------------------------------------

Vice   == RefreshBegin \/ RefreshEnd \/ ViceEnds
Render == TakeJob \/ JobOnce \/ RenderSkipped \/ RenderBegin \/ RenderUpload \/ RenderEnd
Update == UpdateBegin \/ UpdateView \/ UpdateViewed \/ UpdateEnd
Exit   == InitiateShutdown \/ FreeExecutor \/ Join \/ UiExit \/ DestroyContext
Ended  == upc = "done" /\ UNCHANGED vars

Next == Vice \/ Render \/ Realize \/ FrameClock \/ Update \/ Exit \/ Ended

(***************************************************************************)
(* The three threads are scheduled, and a thread that waits for one of the *)
(* mutexes gets it in the end (strong fairness where another may take it   *)
(* first).  The user need not quit, nor a frame come.                      *)
(***************************************************************************)
Fairness ==
  /\ SF_vars(RefreshEnd) /\ WF_vars(ViceEnds)
  /\ WF_vars(TakeJob) /\ WF_vars(JobOnce) /\ SF_vars(RenderSkipped \/ RenderBegin)
  /\ SF_vars(RenderUpload) /\ WF_vars(RenderEnd)
  /\ SF_vars(UpdateView) /\ WF_vars(UpdateViewed) /\ SF_vars(UpdateEnd)
  /\ WF_vars(FreeExecutor) /\ WF_vars(Join) /\ WF_vars(UiExit) /\ SF_vars(DestroyContext)

Spec     == Init /\ [][Next]_vars
FairSpec == Spec /\ Fairness

-----------------------------------------------------------------------------
(* Every variable stays in its range; the stack and the ring never hold more *)
(* than they have room for, which the code asserts.                          *)
TypeOK ==
  /\ backbuffer_stack \in Seq(Buffers) /\ Len(backbuffer_stack) <= MAX_BACKBUFFERS
  /\ render_queue \in [RingSlots -> Buffers \cup {NoBuffer}]
  /\ render_queue_next \in RingSlots
  /\ render_queue_length \in 0 .. MAX_BACKBUFFERS
  /\ drawn \in Buffers \cup {NoBuffer}
  /\ uploaded \in Buffers \cup {NoBuffer}
  /\ freed \in BOOLEAN
  /\ canvas_lock \in {"none", "render"}
  /\ render_lock \in {"none", "render", "ui"}
  /\ render_skip \in BOOLEAN
  /\ executor \in Seq(Jobs)
  /\ thread \in {"none", "up", "ending"}
  /\ vpc \in VicePlaces /\ rpc \in RenderPlaces /\ upc \in UiPlaces

(* Each back buffer has one owner at a time, whatever the three threads do,  *)
(* frames leave the ring in the order they were finished, and all of them    *)
(* are freed in the end, when nobody uses them.                              *)
Frames == [i \in 1 .. render_queue_length |-> render_queue[Slot(i - 1)]]

OwnerOf(b) ==
  IF freed THEN "freed"
  ELSE IF b = drawn THEN "vice"
  ELSE IF b = uploaded THEN "render"
  ELSE IF \E i \in DOMAIN Frames : Frames[i] = b THEN "queue"
  ELSE IF \E i \in DOMAIN backbuffer_stack : backbuffer_stack[i] = b THEN "pool"
  ELSE "lost"

Promise == INSTANCE Backbuffers WITH
             owner  <- [b \in Buffers |-> OwnerOf(b)],
             frames <- Frames

ImplementsBackbuffers == Promise!Spec

(* A frame in the ring has a render job of its own on the way, until the     *)
(* shutdown: what lets WM_PAINT and the resize handlers of the DirectX       *)
(* renderer push no job while the ring is not empty.                         *)
RenderJobs ==
  Cardinality({i \in DOMAIN executor : executor[i] = "render"}) + (IF rpc = "render" THEN 1 ELSE 0)

FrameHasJob == thread = "up" => render_queue_length <= RenderJobs

(* No job reaches an executor that has been freed, by whomever it is pushed. *)
NoJobAfterJoin == upc \in {"joining", "exit", "stop", "done"} => executor = <<>>

(* A finished frame leaves the ring, or the program ends: buffers that come  *)
(* back late stop no frame for ever.                                         *)
FrameLeaves ==
  \A b \in Buffers : (OwnerOf(b) = "queue") ~> (OwnerOf(b) # "queue" \/ thread = "ending")

(* A quit is carried out: the render thread is joined wherever it was, with  *)
(* jobs left or with frames still coming.                                    *)
ExitCompletes == (upc = "join") ~> (upc = "done")
=============================================================================
