SPECIFICATION Spec
CONSTANT READS = 10
INVARIANT PrintedIsRead
