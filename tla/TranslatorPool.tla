--------------------------- MODULE TranslatorPool ---------------------------
(***************************************************************************)
(* TranslatorPool of src/src/translator.rs and the loop over a batch in    *)
(* process_translated_batch (src/src/gateway.rs): a worker borrows a       *)
(* translator for the protocol of a message, translates, and gives it      *)
(* back, also when the translation fails; without one it uses the          *)
(* translator all paths of the gateway share.  Each pool is a bounded      *)
(* channel, so only the number of translators in it matters.               *)
(***************************************************************************)
EXTENDS Integers, FiniteSets

CONSTANTS Workers, Protocols, pool_size

VARIABLES pools,
          job,         \* what a worker translates: empty, or <<[protocol, pooled]>>
          fallback     \* history: for each use of the shared translator, the protocol
                       \* and how many translators of its pool were out

vars == <<pools, job, fallback>>

\* The protocols new() makes a pool for.
Pooled == Protocols \cap {"IridiumSBD", "InmarsatC", "VSAT", "HFVHF", "RockBLOCK", "Samsara"}

Init ==
    /\ pools = [p \in Pooled |-> pool_size]
    /\ job = [w \in Workers |-> <<>>]
    /\ fallback = {}

Borrowed(p) == {w \in Workers : job[w] = <<[protocol |-> p, pooled |-> TRUE]>>}

borrow(w, p) ==
    /\ job[w] = <<>>
    /\ LET found == p \in Pooled /\ pools[p] > 0
       IN  /\ pools' = IF found THEN [pools EXCEPT ![p] = @ - 1] ELSE pools
           /\ job' = [job EXCEPT ![w] = <<[protocol |-> p, pooled |-> found]>>]
           /\ fallback' = IF found THEN fallback
                          ELSE fallback \cup {[protocol |-> p, out |-> Cardinality(Borrowed(p))]}

\* A bug to compare with: a translation that fails leaves before the return.
ReturnIfOk(w, ok) ==
    /\ job[w] # <<>>
    /\ pools' = IF job[w][1].pooled /\ ok THEN [pools EXCEPT ![job[w][1].protocol] = @ + 1]
                ELSE pools
    /\ job' = [job EXCEPT ![w] = <<>>]
    /\ UNCHANGED fallback

\* try_send into a full pool would drop the translator.
return_translator(w, ok) ==
    /\ job[w] # <<>>
    /\ LET p == job[w][1].protocol
       IN  pools' = IF job[w][1].pooled /\ pools[p] < pool_size
                    THEN [pools EXCEPT ![p] = @ + 1] ELSE pools
    /\ job' = [job EXCEPT ![w] = <<>>]
    /\ UNCHANGED fallback

Next ==
    \/ \E w \in Workers, p \in Protocols : borrow(w, p)
    \/ \E w \in Workers, ok \in BOOLEAN : return_translator(w, ok)
----------------------------------------------------------------------------
\* No translator is lost or made up, however workers interleave and translations fail,
\* and the shared translator is used only while every translator of the protocol is out
\* (borrow and return_translator, translator.rs), or if the protocol has no pool.
TranslatorsComeBack ==
    /\ \A p \in Pooled : pools[p] + Cardinality(Borrowed(p)) = pool_size
    /\ \A f \in fallback : f.protocol \in Pooled => f.out = pool_size
=============================================================================
