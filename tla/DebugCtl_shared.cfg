SPECIFICATION Spec
CONSTANTS Vcpus = {v1, v2}
INVARIANTS ReadsBack
