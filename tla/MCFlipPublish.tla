---------------------------- MODULE MCFlipPublish ----------------------------
EXTENDS FlipPublish

Draft(content, unreviewed) ==
  [type |-> "draft", review |-> unreviewed, claim |-> "none", content |-> content]

NoDraft == [Draft("audited", TRUE) EXCEPT !.type = "gone"]

\* A draft that awaits review, with or without audit evidence, and a user who
\* handles it.
Alone == {<<Draft(c, TRUE), NoDraft, NoDraft>> : c \in Contents}

\* Such a draft at the head of the queue and a reviewed one behind it. Nobody
\* handles them on the pages.
Queue == {<<NoDraft, Draft(c, TRUE), Draft("audited", FALSE)>> : c \in Contents}

MCInitialStores == Alone \cup Queue
=============================================================================
