SPECIFICATION MCSpec
INVARIANT NamedArgsMatchReference
INVARIANT CashAddrDecodeInvertsEncode
INVARIANT CashAddrCanonicalDecode
INVARIANT HelpMatchesReference
