------------------------ MODULE PerlLoaderRefinement ------------------------
(***************************************************************************)
(* PerlLoader implements LoaderPromise, where no two component files share *)
(* a cache key and RegisterDeferredComponents is not re-entered.           *)
(***************************************************************************)
EXTENDS PerlLoader

Promise ==
  INSTANCE LoaderPromise WITH
    available <- {c \in Loc : registry[c] # None},
    owed <- [l \in Loc |->
               Cardinality({i \in 1 .. Len(deferred) : deferred[i] = l})]

\* The entries of m_DeferredComponents are the registrations owed: whatever
\* Perl code does while a component registers, each step of the loader pays
\* back or adds at most one, that of the component at hand, and records at
\* most that component's class.
KeepsPromise == Promise!PromiseSpec

=============================================================================
