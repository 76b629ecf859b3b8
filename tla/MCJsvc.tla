------------------------------- MODULE MCJsvc -------------------------------
(* Small instances of Jsvc for TLC. *)
EXTENDS Jsvc, TLC

(* Instances, pids and inodes are interchangeable. *)
Symmetry == Permutations(Inst) \cup Permutations(Pid) \cup Permutations(Inode)

(* No step of Jsvc reads upfile, the exit status of a controller that is off
   (Launch sets it anew), nor the content of an inode that neither the
   name nor a process refers to: states that differ only there are the same. *)
View ==
    LET InUse == {pidfile} \cup {file[i] : i \in Inst}
    IN  <<pidfile, [n \in InUse \ {NoInode} |-> content[n]], foreign,
          ctl, mode, controlled, [i \in Inst |-> IF ctl[i] = "off" THEN "ok" ELSE status[i]],
          child, pid, file, target, stopping, doreload, pend>>
=============================================================================
