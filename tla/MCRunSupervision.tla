--------------------------- MODULE MCRunSupervision ---------------------------
(* RunSupervision with two ids: a label that is repointed, beside a repository *)
(* that comes and goes, and a list that could not be read.                     *)
EXTENDS RunSupervision, TLC

CONSTANTS a, b, x, y

Known(path) == [known |-> TRUE, path |-> path]

MCConfigs ==
  {Known(a :> x), Known((a :> y) @@ (b :> x)),
   [known |-> FALSE, path |-> [id \in {} |-> x]]}
===============================================================================
