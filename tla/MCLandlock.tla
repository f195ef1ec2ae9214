----------------------------- MODULE MCLandlock -----------------------------
(* Model-checking instance of Landlock: the table as                     *)
(* built with LANDLOCK_ACCESS_FS_REFER, _TRUNCATE and _IOCTL_DEV, a kernel *)
(* whose ABI predates ioctl-dev, and small sets of arguments.              *)
EXTENDS Landlock

MCAccessFs ==
    <<"execute", "write-file", "read-file", "read-dir", "remove-dir",
      "remove-file", "make-char", "make-dir", "make-reg", "make-sock",
      "make-fifo", "make-block", "make-sym", "refer", "truncate", "ioctl-dev">>

MCKernelRights == {MCAccessFs[i] : i \in 1..15}

MCAccessArgs == {"fs", "fs:", "fs:read-file,read-dir", "fs:read", "fs:bogus",
                 "fs:ioctl-dev", "net"}

MCRuleArgs == {"path-beneath:read-file:/usr", "path-beneath::/tmp",
               "path-beneath:read-dir:/missing", "path-beneath:make:/usr",
               "path-beneath:read-dir,execute:/usr", "landlock:read-file:/usr",
               "path-beneath:read-file"}

MCOpenable == {"/usr", "/tmp"}

=============================================================================
