-------------------------------- MODULE Selection --------------------------------
(***************************************************************************)
(* Searching for a Book and selecting one of the results (src/books), over *)
(* the Book rows that selections and commands fill together.               *)
(*                                                                         *)
(* The candidates of the latest search are kept in the session.  A request *)
(* reads the session when it starts and writes it back, whole, when it     *)
(* ends: searches of two tabs overlap, and the one that ends last wins.    *)
(***************************************************************************)
EXTENDS Knowledge

CONSTANT MaxSearches    \* a bound on the searches of the session

VARIABLES
    session,        \* the batch of candidates in the session, or None
    search          \* search[k]: how far the k-th search is

sessionVars == <<session, search>>
selectionVars == <<knowledgeVars, sessionVars>>

-------------------------------------------------------------------------------
\* of is the search a batch comes from, found its Books and their metadata, old
\* that it is past its 15 minutes.
Batches == [of : 1..MaxSearches, found : UNION {[S -> Sources] : S \in (SUBSET Searched) \ {{}}},
            old : BOOLEAN]

\* after is the set of searches that had ended when this one started.
SearchState == [stage : {"none", "running", "ended", "failed"}, after : SUBSET (1..MaxSearches)]

Ended == {k \in 1..MaxSearches : search[k].stage = "ended"}

SelectionInit ==
    /\ KnowledgeInit
    /\ session = None
    /\ search = [k \in 1..MaxSearches |-> [stage |-> "none", after |-> {}]]

\* A valid query: the candidates are removed, in the request's copy of the
\* session, and the provider is called.
SearchBegins(k) ==
    /\ search[k].stage = "none"
    /\ \A j \in 1..(k - 1) : search[j].stage # "none"
    /\ search' = [search EXCEPT ![k] = [stage |-> "running", after |-> Ended]]
    /\ UNCHANGED <<knowledgeVars, session>>

Ends(k, stage) ==
    /\ search[k].stage = "running"
    /\ search' = [search EXCEPT ![k].stage = stage]
    /\ UNCHANGED knowledgeVars

SearchSucceeds(k, found) ==
    /\ Ends(k, "ended")
    /\ session' = [of |-> k, found |-> found, old |-> FALSE]

\* Mutant: the candidates are removed only when there are new ones.
SearchFindsNothing_Keeping(k) ==
    /\ Ends(k, "ended")
    /\ UNCHANGED session

\* Mutant: a batch without candidates is stored.
SearchFindsNothing_Stored(k) ==
    /\ Ends(k, "ended")
    /\ session' = [of |-> k, found |-> <<>>, old |-> FALSE]

\* Nothing found, or a ProviderError: the copy without candidates is saved.
SearchFindsNothing(k) ==
    /\ Ends(k, "ended")
    /\ session' = None

\* Any other exception is a server error, after which a session is not saved.
SearchCrashes(k) ==
    /\ Ends(k, "failed")
    /\ UNCHANGED session

\* TTL_SECONDS have passed.
CandidatesExpire ==
    /\ session # None
    /\ ~session.old
    /\ session' = [session EXCEPT !.old = TRUE]
    /\ UNCHANGED <<knowledgeVars, search>>

\* get_candidate finds the candidate of search k for ISBN i.
Selectable(k, i) ==
    /\ session # None
    /\ session.of = k
    /\ i \in DOMAIN session.found
    /\ ~session.old

\* Any page may still show any candidate; only those are accepted.
Select(t, k, i) ==
    /\ Selectable(k, i)
    /\ Begin(t, "select", session.found[i], <<i>>)
    /\ UNCHANGED sessionVars

SelectionNext ==
    \/ KnowledgeNext /\ UNCHANGED sessionVars
    \/ \E k \in 1..MaxSearches :
         \/ SearchBegins(k)
         \/ \E S \in (SUBSET Searched) \ {{}} : \E found \in [S -> Sources] : SearchSucceeds(k, found)
         \/ SearchFindsNothing(k)
         \/ SearchCrashes(k)
    \/ CandidatesExpire
    \/ \E t \in Tasks, k \in 1..MaxSearches, i \in Searched : Select(t, k, i)

SelectionSpec == SelectionInit /\ [][SelectionNext]_selectionVars

-------------------------------------------------------------------------------
(* Safety *)

\* The batch in the session, and the searches, keep their shapes.
SelectionTypeOK ==
    /\ session \in Batches \cup {None}
    /\ search \in [1..MaxSearches -> SearchState]

\* "A new search removes the earlier batch" (specs/005 contract): once a search
\* has ended, no candidate of a search that had ended before it began can be
\* selected, whatever it found and whichever searches overlap with it.
EarlierCandidatesGone ==
    \A k \in Ended, j \in 1..MaxSearches : j \in search[k].after =>
        \A i \in Searched : ~Selectable(j, i)

===============================================================================
