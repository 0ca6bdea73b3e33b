------------------------ MODULE MCHostAccessibility ------------------------
EXTENDS HostAccessibility
CONSTANTS button, text

\* Nothing, one node, and another two of which one is changed.
TreesUsed == {NoTree, [n \in {1} |-> button],
              [n \in {1, 2} |-> IF n = 1 THEN text ELSE button]}
=============================================================================
