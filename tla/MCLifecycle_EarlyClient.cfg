SPECIFICATION Spec
CONSTANT MayFail = {}
INVARIANT CfgStateUsable
CHECK_DEADLOCK FALSE
