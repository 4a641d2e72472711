SPECIFICATION Spec
CONSTANTS
    ExtraHeights = {1, 2, 3, 4, 5, 6, 7, 8, 9, 11, 12, 13, 14, 15, 17, 18, 19, 21, 22, 23, 24}
    MessageLengths = {0, 2463}
CHECK_DEADLOCK FALSE
INVARIANT ParamsRight
INVARIANT LayoutsAgree
INVARIANT HashInputsApart
INVARIANT OneHashFunction
INVARIANT OwnSetDecodes
INVARIANT DecodesApart
INVARIANT OnlyOwnSetVerifies
