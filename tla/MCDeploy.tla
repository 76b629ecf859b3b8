------------------------------ MODULE MCDeploy ------------------------------
(* Deploy on two servers that setup.sh asks; on one of them no database comes
   after the shop's. *)
EXTENDS Deploy, FiniteSets

Asked == {{"nomysql"}, {"nomysql", "tail"}}
NoTail == {{"nomysql"}}

(* The bound of the run: what can be broken at once before TLC goes no further,
   on the server where setup.sh finds all databases and on the other. *)
MaxBroken == 1
MaxBrokenBare == 0
FewBroken ==
    Cardinality({d \in Db : db[d] = Broken}) + Cardinality({a \in App : app[a] = Broken})
        <= IF "tail" \in server THEN MaxBroken ELSE MaxBrokenBare
=============================================================================
