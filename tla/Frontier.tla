-------------------------------- MODULE Frontier --------------------------------
(* The frontier topic: the API writes jobs to it, the worker pods take them.  *)
VARIABLES
    frontier,      \* the bag of jobs in the topic that no pod has taken
    submitted      \* history: the set of jobs the API wrote
================================================================================
