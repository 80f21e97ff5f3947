------------------------------- MODULE PageChain -------------------------------
(***************************************************************************)
(* Pages in a chain, each holding the number of the next: the pages of a   *)
(* heap file (NextPageId) and those of a hash bucket (OverflowPageId).     *)
(* Every walk along such a chain keeps visited_pages and stops when it     *)
(* meets a page again.  links gives each page its next page; a number that *)
(* is no page ends the chain.                                              *)
(***************************************************************************)
EXTENDS Integers

INVALID_PAGE_ID == -1

Closed(links, S) == \A p \in S : links[p] \in DOMAIN links => links[p] \in S

(* What visited_pages holds after a walk from page p to the end: the least *)
(* set with p in it that no link leads out of.                             *)
Visited(links, p) ==
    LET walks == {S \in SUBSET DOMAIN links : /\ p \in DOMAIN links => p \in S
                                              /\ Closed(links, S)}
    IN {q \in DOMAIN links : \A S \in walks : q \in S}

(* The walk from p comes to a page without a next page; one that met a     *)
(* page again would go round for ever and visit no such page.              *)
Ends(links, p) ==
    p \in DOMAIN links => \E q \in Visited(links, p) : links[q] \notin DOMAIN links
=============================================================================
