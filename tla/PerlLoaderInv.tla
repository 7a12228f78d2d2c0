--------------------------- MODULE PerlLoaderInv ----------------------------
(***************************************************************************)
(* The inductive invariants behind the safety properties of PerlLoader.    *)
(***************************************************************************)
EXTENDS PerlLoader

\* What each kind of frame has filled in.
FrameOK(f) ==
  /\ f.op = "scan" => f.at = "loop"
  /\ f.at = "loop" => f.op \in {"scan", "deferred"}
  /\ f.at = "start" => f.op = "autoreg"
  /\ f.at # "loop" => f.loc \in Loc
  /\ f.at = "call" => f.mod \in Loc
  /\ f.op = "factory" => f.cls \in Loc
  /\ Deferring(f) => f.idx # 0

\* An entry whose file was good when the entry was made.
GoodEntry(l) == pmStore[l] # None /\ pmStore[l].ok

\* The entry a frame works on exists; only a good one gets as far as
\* SelfRegisterModule.
EntryOK(f) ==
  f.at \notin {"start", "loop"} =>
    /\ pmStore[f.loc] # None
    /\ f.op \in {"autoreg", "deferred"} => GoodEntry(f.loc)

FramesOK == \A k \in 1 .. Len(stack) : FrameOK(stack[k]) /\ EntryOK(stack[k])

DeferredOK == \A i \in 1 .. Len(deferred) : GoodEntry(deferred[i])

BadUnstamped ==
  \A l \in Loc : pmStore[l] # None /\ ~pmStore[l].ok => pmStore[l].stamp = 0

\* Type correctness and the raw pointers to file entries.
LoaderInv == TypeOK /\ FramesOK /\ DeferredOK /\ BadUnstamped

\* The deferred frame is the outermost call: Perl code cannot make another.
OneDeferred ==
  \A k \in 1 .. Len(stack) : stack[k].op = "deferred" => k = 1

DeferredInv == LoaderInv /\ OneDeferred /\ DeferredInProgress

\* A frame calls the module of its location; a class object is looked for at
\* the location that has the class's own name.
OwnFrame(f) ==
  /\ f.at = "call" => f.mod = f.loc
  /\ f.op = "factory" => f.loc = f.cls

\* Classes, cache and calls agree on which file is which.
OwnRegistry == \A c \in Loc : registry[c] \in {None, c}

OwnCache == \A n \in Name : modules[n] # None => ModuleName[modules[n]] = n

OwnFrames == \A k \in 1 .. Len(stack) : OwnFrame(stack[k])

OwnInv == LoaderInv /\ OwnRegistry /\ OwnCache /\ OwnFrames

\* No two files share a cache key.
NamesDistinct == \A l, m \in Loc : ModuleName[l] = ModuleName[m] => l = m

=============================================================================
